---- MODULE Spec2Model ----
(***************************************************************************)
(* EBS snapshot tier evaluator: the SQS worker of snapshot_evaluator.py    *)
(* (lambda_handler -> main -> get_changed_blocks), the S3 pairwise diff    *)
(* cache it shares with the other workers, and the DynamoDB results table. *)
(* Every call to an AWS API is one step of a worker; the pure code between *)
(* two calls belongs to the step of the call that precedes it.             *)
(***************************************************************************)
EXTENDS Integers, Sequences, FiniteSets, TLC

(* ------------------------------ bounds --------------------------------- *)
\* number of snapshots that exist for the volume
NumSnaps == 3
\* block indices a diff may report are 1..MaxBlock
MaxBlock == 2
\* records per API result page
PageSize == 1
\* records in one SQS event
MaxBatch == 2
\* worker invocations in one behaviour of the repeated-invocation specification
MaxInvocations == 2

(* --------------------------- the environment --------------------------- *)
SnapIds == <<"s1", "s2", "s3", "s4", "s5">>
Snaps == {SnapIds[i] : i \in 1..NumSnaps}
Workers == {"w1", "w2"}
JobIds == {"j1"}
VolumeId == "vol1"
BlockSizes == {524288}
VolumeSizeGb == 8

\* Python's None
None == [None |-> TRUE]

\* creation time of a snapshot: the later the id, the earlier the snapshot,
\* so that the order by creation time is not the order by id
StartTime(s) == CHOOSE t \in 1..NumSnaps : SnapIds[NumSnaps + 1 - t] = s

SeqToSet(s) == {s[i] : i \in DOMAIN s}

\* the sequences without repetition over S
InjSeqs(S) ==
  UNION {{s \in [1..n -> S] : \A i, j \in 1..n : i # j => s[i] # s[j]} : n \in 0..Cardinality(S)}

\* the record describe_snapshots returns for a snapshot
SnapshotRecord(s) == [SnapshotId |-> s, StartTime |-> StartTime(s)]

\* for each set of snapshots, the orders in which describe_snapshots may list it
ChainListingsOf ==
  [ids \in SUBSET Snaps |->
     {[i \in DOMAIN s |-> SnapshotRecord(s[i])] :
        s \in {t \in InjSeqs(ids) : Len(t) = Cardinality(ids)}}]

ChainListings(ids) == ChainListingsOf[ids]

\* one record of list_changed_blocks, as the provider returns it
ChangedBlock(i) == [BlockIndex |-> i, FirstBlockToken |-> "tok1", SecondBlockToken |-> "tok2"]

\* the changed-block listings the provider may hold for an ordered pair
ChangedBlockListings ==
  {[i \in DOMAIN s |-> ChangedBlock(s[i])] : s \in InjSeqs(1..MaxBlock)}

RECURSIVE Paginate(_, _)
\* the provider cuts a listing into pages of at most n records (at least one page)
Paginate(s, n) ==
  IF Len(s) <= n THEN <<s>>
  ELSE <<SubSeq(s, 1, n)>> \o Paginate(SubSeq(s, n + 1, Len(s)), n)

Pairs == {p \in Snaps \X Snaps : p[1] # p[2]}

(* --------------------------- pure functions ---------------------------- *)
RECURSIVE FetchAllPages(_)
\* blocks = response[..]; while "NextToken" in response: blocks.extend(...)
FetchAllPages(pages) ==
  IF Len(pages) = 1 THEN pages[1]
  ELSE pages[1] \o FetchAllPages(Tail(pages))

calculate_approx_full_snapshot_size(number_of_blocks, block_size_bytes) ==
  number_of_blocks * block_size_bytes

RECURSIVE InsertByStartTime(_, _)
InsertByStartTime(sorted, x) ==
  IF sorted = <<>> THEN <<x>>
  ELSE IF Head(sorted).StartTime <= x.StartTime
       THEN <<Head(sorted)>> \o InsertByStartTime(Tail(sorted), x)
       ELSE <<x>> \o sorted

\* variant: the chain taken in the order the provider listed it
sort_snapshots_by_created_date_as_listed(snapshots) == snapshots

RECURSIVE sort_snapshots_by_created_date(_)
\* sorted(snapshots, key=StartTime): stable, ascending
sort_snapshots_by_created_date(snapshots) ==
  IF snapshots = <<>> THEN <<>>
  ELSE InsertByStartTime(
         sort_snapshots_by_created_date(SubSeq(snapshots, 1, Len(snapshots) - 1)),
         snapshots[Len(snapshots)])

\* variant: a target that is not listed is taken to follow the last one listed
get_surrounding_snapshots_appended(list_of_snapshots, the_target_snapshot) ==
  LET hits == {i \in DOMAIN list_of_snapshots :
                 list_of_snapshots[i].SnapshotId = the_target_snapshot}
  IN IF hits = {}
     THEN <<IF list_of_snapshots = <<>> THEN None
            ELSE list_of_snapshots[Len(list_of_snapshots)], None>>
     ELSE LET index == CHOOSE i \in hits : \A j \in hits : i <= j
          IN <<IF index > 1 THEN list_of_snapshots[index - 1] ELSE None,
               IF index < Len(list_of_snapshots) THEN list_of_snapshots[index + 1] ELSE None>>

\* <<snap_before, snap_after>> of the first occurrence of the target, None where missing
get_surrounding_snapshots(list_of_snapshots, the_target_snapshot) ==
  LET hits == {i \in DOMAIN list_of_snapshots :
                 list_of_snapshots[i].SnapshotId = the_target_snapshot}
  IN IF hits = {} THEN <<None, None>>
     ELSE LET index == CHOOSE i \in hits : \A j \in hits : i <= j
          IN <<IF index > 1 THEN list_of_snapshots[index - 1] ELSE None,
               IF index < Len(list_of_snapshots) THEN list_of_snapshots[index + 1] ELSE None>>

\* truth value of a snapshot object or None
Truthy(x) == x # None

\* variant: `or` for `and` in the first test
determine_eval_scenario_or(snapshot_before, snapshot_after) ==
  IF ~Truthy(snapshot_before) \/ ~Truthy(snapshot_after) THEN "NEITHER"
  ELSE IF Truthy(snapshot_before) /\ Truthy(snapshot_after) THEN "BOTH"
  ELSE IF Truthy(snapshot_before) /\ ~Truthy(snapshot_after) THEN "BEFORE"
  ELSE IF ~Truthy(snapshot_before) /\ Truthy(snapshot_after) THEN "AFTER"
  ELSE "RAISE"

determine_eval_scenario(snapshot_before, snapshot_after) ==
  IF ~Truthy(snapshot_before) /\ ~Truthy(snapshot_after) THEN "NEITHER"
  ELSE IF Truthy(snapshot_before) /\ Truthy(snapshot_after) THEN "BOTH"
  ELSE IF Truthy(snapshot_before) /\ ~Truthy(snapshot_after) THEN "BEFORE"
  ELSE IF ~Truthy(snapshot_before) /\ Truthy(snapshot_after) THEN "AFTER"
  ELSE "RAISE"

\* variant: the last record lost on the way into the stored bytes
compress_json_truncated(data) ==
  [zlib |-> [i \in 1..(Len(data) - 1) |-> data[i].BlockIndex]]

\* json.dumps of the list of {"BlockIndex": i} dicts, then zlib.compress
compress_json(data) == [zlib |-> [i \in DOMAIN data |-> data[i].BlockIndex]]

\* zlib.decompress, then json.loads
decompress_json(data) == [i \in DOMAIN data.zlib |-> [BlockIndex |-> data.zlib[i]]]

\* del block["FirstBlockToken"], del block["SecondBlockToken"]
StripTokens(blocks) == [i \in DOMAIN blocks |-> [BlockIndex |-> blocks[i].BlockIndex]]

\* d[k] = v on a Python dict
Put(d, k, v) == [x \in DOMAIN d \cup {k} |-> IF x = k THEN v ELSE d[x]]

(* ------- the size arithmetic of main(), one operator per scenario ------- *)
\* variant: a lone snapshot counted as freeing nothing
SizesNeither_nothing_freed(approx_full_snapshot_size_bytes) ==
  [approx_size_target_snapshot_bytes |-> approx_full_snapshot_size_bytes,
   approx_size_target_snapshot_removed_bytes |-> 0]

\* NEITHER: both figures are the full snapshot size
SizesNeither(approx_full_snapshot_size_bytes) ==
  [approx_size_target_snapshot_bytes |-> approx_full_snapshot_size_bytes,
   approx_size_target_snapshot_removed_bytes |-> approx_full_snapshot_size_bytes]

\* seen_changed_block_index_before / _after
BlockIndexes(changed_blocks) ==
  [i \in DOMAIN changed_blocks.ChangedBlocks |-> changed_blocks.ChangedBlocks[i].BlockIndex]

\* variant: union of the two comparisons in place of the intersection
SizesBoth_union(snapshot_blocks, changed_blocks_before, changed_blocks_after) ==
  [approx_size_target_snapshot_bytes |->
     Len(BlockIndexes(changed_blocks_before)) * snapshot_blocks.BlockSize,
   approx_size_target_snapshot_removed_bytes |->
     Cardinality(SeqToSet(BlockIndexes(changed_blocks_before))
                   \cup SeqToSet(BlockIndexes(changed_blocks_after))) * snapshot_blocks.BlockSize]

\* BOTH: len(before) blocks online, len(set(before) & set(after)) blocks removed
SizesBoth(snapshot_blocks, changed_blocks_before, changed_blocks_after) ==
  LET seen_changed_block_index_before == BlockIndexes(changed_blocks_before)
      seen_changed_block_index_after == BlockIndexes(changed_blocks_after)
      block_indexes_in_both_comparisons ==
        SeqToSet(seen_changed_block_index_before) \cap SeqToSet(seen_changed_block_index_after)
  IN [approx_size_target_snapshot_bytes |->
        Len(seen_changed_block_index_before) * snapshot_blocks.BlockSize,
      approx_size_target_snapshot_removed_bytes |->
        Cardinality(block_indexes_in_both_comparisons) * snapshot_blocks.BlockSize]

\* variant: the newest snapshot sized by its own block listing
SizesBefore_full(snapshot_blocks, changed_blocks_before) ==
  [approx_size_target_snapshot_bytes |->
     Len(snapshot_blocks.Blocks) * snapshot_blocks.BlockSize,
   approx_size_target_snapshot_removed_bytes |->
     Len(snapshot_blocks.Blocks) * snapshot_blocks.BlockSize]

\* BEFORE: both figures are len(before) blocks
SizesBefore(snapshot_blocks, changed_blocks_before) ==
  LET approx_size_target_snapshot_bytes ==
        Len(changed_blocks_before.ChangedBlocks) * snapshot_blocks.BlockSize
  IN [approx_size_target_snapshot_bytes |-> approx_size_target_snapshot_bytes,
      approx_size_target_snapshot_removed_bytes |-> approx_size_target_snapshot_bytes]

\* variant: the oldest snapshot sized by the comparison with its successor
SizesAfter_changed_only(snapshot_blocks, changed_blocks_after) ==
  [approx_size_target_snapshot_bytes |->
     Len(changed_blocks_after.ChangedBlocks) * snapshot_blocks.BlockSize,
   approx_size_target_snapshot_removed_bytes |->
     Len(changed_blocks_after.ChangedBlocks) * snapshot_blocks.BlockSize]

\* AFTER: all listed blocks online, len(after) blocks removed
SizesAfter(snapshot_blocks, changed_blocks_after) ==
  [approx_size_target_snapshot_bytes |->
     Len(snapshot_blocks.Blocks) * snapshot_blocks.BlockSize,
   approx_size_target_snapshot_removed_bytes |->
     Len(changed_blocks_after.ChangedBlocks) * snapshot_blocks.BlockSize]

\* eval_data with the two size figures stored
WithSizes(data, sizes) ==
  Put(Put(data, "approx_size_target_snapshot_bytes", sizes.approx_size_target_snapshot_bytes),
      "approx_size_target_snapshot_removed_bytes", sizes.approx_size_target_snapshot_removed_bytes)

(* ------------- decimal.Decimal values and the cost arithmetic ---------- *)
RECURSIVE Gcd(_, _)
Gcd(a, b) == IF b = 0 THEN a ELSE Gcd(b, a % b)

\* a decimal.Decimal value, held as the fraction num/den in lowest terms; the
\* sizes and prices of the model stay far below the 28 digits at which
\* Decimal arithmetic starts to round
Decimal(num, den) == [num |-> num \div Gcd(num, den), den |-> den \div Gcd(num, den)]

\* a * b on Decimal values, common factors removed before multiplying
DecimalMul(a, b) ==
  LET g1 == Gcd(a.num, b.den)
      g2 == Gcd(b.num, a.den)
  IN Decimal((a.num \div g1) * (b.num \div g2), (a.den \div g2) * (b.den \div g1))

\* str(obj) of a Decimal, as it stands in a JSON document
DecimalStr(d) == [str |-> <<d.num, d.den>>]

\* decimal.Decimal(s) of such a string
DecimalOfStr(s) == Decimal(s.str[1], s.str[2])

\* DecimalEncoder.default: "0" for a zero, str(obj) otherwise
DecimalEncoder(obj) == IF obj.num = 0 THEN [str |-> <<0, 1>>] ELSE DecimalStr(obj)

BYTES_PER_GB == 1073741824

\* variant: the decimal gigabyte of 10^9 bytes
bytes_to_gb_decimal(size_in_bytes) == Decimal(size_in_bytes, 1000 * 1000 * 1000)

\* decimal.Decimal(size_in_bytes / BYTES_PER_GB): the float division by a
\* power of two and its conversion to Decimal are both exact
bytes_to_gb(size_in_bytes) == Decimal(size_in_bytes, BYTES_PER_GB)

\* decimal.Decimal("3"), the months of the 90-day comparison
Months == Decimal(3, 1)

\* Step 8 of main(): the two 90-day cost estimates
Step8(data, pricing) ==
  LET EBS_STD_SNAPSHOT_PRICE_GB_MONTH == pricing.std_tier_snapshot_pricing
      EBS_ARCHIVE_SNAPSHOT_PRICE_GB_MONTH == pricing.archive_tier_snapshot_pricing
      cost_estimate_target_snapshot_in_std_tier ==
        DecimalMul(DecimalMul(bytes_to_gb(data.approx_size_target_snapshot_bytes),
                              EBS_STD_SNAPSHOT_PRICE_GB_MONTH), Months)
      cost_estimate_target_snapshot_in_archive_tier ==
        DecimalMul(DecimalMul(bytes_to_gb(data.approx_full_snapshot_size_bytes),
                              EBS_ARCHIVE_SNAPSHOT_PRICE_GB_MONTH), Months)
  IN Put(Put(data, "cost_estimate_90days_target_snapshot_in_std_tier",
             cost_estimate_target_snapshot_in_std_tier),
         "cost_estimate_90days_target_snapshot_in_archive_tier",
         cost_estimate_target_snapshot_in_archive_tier)

\* the prices per GB-month the Pricing API may return: standard tier, archive tier
StdPrices == {Decimal(5, 100), Decimal(54, 1000)}
ArchivePrices == {Decimal(125, 10000), Decimal(135, 10000)}

\* the dict get_pricing_data returns
PricingData(std, archive) ==
  [std_tier_snapshot_pricing |-> std, archive_tier_snapshot_pricing |-> archive]

\* json.dumps(..., cls=DecimalEncoder) of the pricing_data of a message
PricingJson(pricing_data) ==
  [std_tier_snapshot_pricing |-> DecimalEncoder(pricing_data.std_tier_snapshot_pricing),
   archive_tier_snapshot_pricing |-> DecimalEncoder(pricing_data.archive_tier_snapshot_pricing)]

\* variant: the prices of one region, whatever the message holds
convert_pricing_data_to_decimal_fixed(payload) ==
  [payload EXCEPT !.pricing_data = PricingData(Decimal(5, 100), Decimal(125, 10000))]

\* the payload with both prices parsed: decimal.Decimal(<string>)
convert_pricing_data_to_decimal(payload) ==
  [payload EXCEPT !.pricing_data =
     PricingData(DecimalOfStr(payload.pricing_data.std_tier_snapshot_pricing),
                 DecimalOfStr(payload.pricing_data.archive_tier_snapshot_pricing))]

\* variant: an error record that also carries zero estimates
WithError_with_estimates(data, code, msg) ==
  Put(Put(WithSizes(data, SizesNeither(0)), "error_message", msg), "error_code", code)

\* eval_data with error_message and error_code stored
WithError(data, code, msg) == Put(Put(data, "error_message", msg), "error_code", code)

(* ------------------------------- state --------------------------------- *)
VARIABLES
  blockSize,    \* provider: the block size of the volume and of all its snapshots
  blocksOf,     \* provider: the block listing of each snapshot, once observed
  chain,        \* provider: the snapshots of the volume, once observed
  diffOf,       \* provider: the changed-block listing of each ordered pair, once observed
  cache,        \* S3: the object under cache/<snap1>_<snap2>.json.zlib, per ordered pair
  ddb,          \* DynamoDB eval results table, per (JobId, SnapshotId)
  pc,           \* per worker: the call the worker is about to make
  event,        \* per worker: event['Records'] of the running invocation
  loc,          \* per worker: the locals of main() and get_changed_blocks()
  eval_data,    \* per worker: the result dict under construction
  raisedIn,     \* per worker: the function whose exception left lambda_handler
  queue,        \* SQS: the messages the event source may deliver (at least once)
  pool,         \* the workers the event source may invoke (the function's concurrency)
  batch,        \* the largest number of records the event source puts in one event
  budget,       \* invocations the event source may still start
  diffCalls,    \* per worker: list_changed_blocks requests of the current evaluation
  cacheOps,     \* per worker: S3 cache requests of the current evaluation
  returnedDiff, \* pairs for which some get_changed_blocks call returned a dict
  listedDiff,   \* pairs for which some call returned a listing the provider delivered
  puts,         \* the put_object requests S3 has accepted: pair of the call and payload
  rateLimited,  \* per worker: the provider answered a request of the evaluation with its rate limit
  job,          \* snapshot_job_init: the call lambda_handler is about to make and its locals
  checker,      \* processing_status_checker: the call it is about to make and its locals
  consolidation, \* consolidate_to_s3: the call it is about to make and its two streams
  outputs,      \* S3: the results CSV and the errors CSV consolidation has uploaded
  tableAtInvoke \* the eval results table as it stood when the status checker was invoked

world == <<blockSize, blocksOf, chain, diffOf>>
source == <<queue, pool, batch, job>>
ghost == <<returnedDiff, listedDiff, puts>>
reporting == <<checker, consolidation, outputs, tableAtInvoke>>
vars == <<blockSize, blocksOf, chain, diffOf, cache, ddb, pc, event, loc, eval_data, raisedIn,
          queue, pool, batch, budget, diffCalls, cacheOps, returnedDiff, listedDiff, puts,
          rateLimited, job, checker, consolidation, outputs, tableAtInvoke>>

Unknown == [kind |-> "unknown"]
NoObject == [kind |-> "none"]
NoItem == [kind |-> "none"]

InitLoc ==
  [target |-> "unset", snapshot_blocks |-> None, approx_full |-> 0,
   snapshot_before |-> None, snapshot_after |-> None, scenario |-> "unset",
   snap1 |-> "unset", snap2 |-> "unset", cache_read |-> "unset", response |-> None,
   pricing |-> None,
   changed_blocks_before |-> None, changed_blocks_after |-> None]

\* the message bodies job init may send: ids and the prices as JSON strings
Messages ==
  [jobid : JobIds, snapshot_id : Snaps,
   pricing_data : {PricingJson(PricingData(std, archive)) : std \in StdPrices, archive \in ArchivePrices}]

\* the messages of a job whose lookup returned the two prices
JobMessages(std, archive) ==
  {m \in Messages : m.pricing_data = PricingJson(PricingData(std, archive))}

\* the messages of a job initialised in the one or in the other region
RegionMessages ==
  JobMessages(Decimal(5, 100), Decimal(125, 10000))
    \cup JobMessages(Decimal(54, 1000), Decimal(135, 10000))

\* the messages of a job initialised in the first region
FirstRegionMessages == JobMessages(Decimal(5, 100), Decimal(125, 10000))
Events == UNION {[1..n -> Messages] : n \in 1..MaxBatch}

\* the events the event source can build now: up to batch queued messages
Deliverable == UNION {[1..n -> queue] : n \in 1..batch}

\* the locals of snapshot_job_init.lambda_handler before its first call
JobStart ==
  [pc |-> "list_snapshots", jobid |-> "j1", snapshot_ids |-> <<>>, pricing_data |-> None,
   std |-> None, i |-> 0, lookups |-> 0]

\* job init returned in the past
JobOver == [JobStart EXCEPT !.pc = "over"]

\* the locals of processing_status_checker.lambda_handler before an invocation
CheckerStart ==
  [pc |-> "idle", jobid |-> "j1", data |-> <<>>, LastEvaluatedKey |-> None,
   result |-> None, runs |-> 0]

\* the locals of consolidate_to_s3.lambda_handler before its invocation
ConsolidationStart ==
  [pc |-> "idle", jobid |-> "j1", stream |-> <<>>, error_stream |-> <<>>, raisedIn |-> "none"]

\* neither the status checker nor consolidation has been invoked; no CSV uploaded
InitReporting ==
  /\ checker = CheckerStart
  /\ consolidation = ConsolidationStart
  /\ outputs = [results |-> NoObject, errors |-> NoObject]
  /\ tableAtInvoke = [k \in JobIds \X Snaps |-> NoItem]

\* the state before the first invocation: no changed blocks observed, cache and
\* table empty; blocks0 and chain0 are what is known of the snapshots and of
\* the volume, queue0 the queued messages, batch0 the batch size of the event
\* source, budget0 the invocations to come
InitBase(blocks0, chain0, queue0, batch0, budget0, job0) ==
  /\ blockSize \in BlockSizes
  /\ blocksOf \in blocks0
  /\ chain \in chain0
  /\ diffOf = [p \in Pairs |-> Unknown]
  /\ cache = [p \in Pairs |-> NoObject]
  /\ ddb = [k \in JobIds \X Snaps |-> NoItem]
  /\ pc = [w \in Workers |-> "idle"]
  /\ event = [w \in Workers |-> <<>>]
  /\ loc = [w \in Workers |-> InitLoc]
  /\ eval_data = [w \in Workers |-> [target_snapshot |-> "unset"]]
  /\ raisedIn = [w \in Workers |-> "none"]
  /\ queue = queue0
  /\ pool = {"w1"}
  /\ batch = batch0
  /\ budget = budget0
  /\ diffCalls = [w \in Workers |-> 0]
  /\ cacheOps = [w \in Workers |-> 0]
  /\ returnedDiff = {}
  /\ listedDiff = {}
  /\ puts = {}
  /\ rateLimited = [w \in Workers |-> FALSE]
  /\ job = job0
  /\ InitReporting

\* the same with job init over: its messages are in the queue
InitWith(blocks0, chain0, queue0, batch0, budget0) ==
  InitBase(blocks0, chain0, queue0, batch0, budget0, JobOver)

\* one invocation on a single-record event, any volume, any queued snapshot
Init == InitWith({[s \in Snaps |-> Unknown]}, {Unknown}, RegionMessages, 1, 1)

(* ------------------------- provider replies ---------------------------- *)
\* what list_snapshot_blocks may hold for a snapshot: n blocks of one block size
BlockListings(bs) ==
  {[kind |-> "data", BlockSize |-> bs,
    Blocks |-> [i \in 1..n |-> [BlockIndex |-> i, BlockToken |-> "tok"]]] : n \in 0..MaxBlock}

\* variant: snapshots that change, every call may see other data
Observe_mutable(known, candidates) == candidates

\* the provider's data is fixed once a call has observed it (snapshots are immutable)
Observe(known, candidates) == IF known.kind = "unknown" THEN candidates ELSE {known}

\* Python's False and the truth value of a dict or False
False == [False |-> TRUE]
PyTruthy(x) == x # False /\ x # None /\ DOMAIN x # {}

(* ---------------------------- get_changed_blocks ----------------------- *)
\* variant: one key for the two orders of a pair
cache_key_unordered(snap1, snap2) ==
  IF StartTime(snap1) <= StartTime(snap2) THEN <<snap1, snap2>> ELSE <<snap2, snap1>>

\* f"{snap1}_{snap2}.json.zlib" under cache/: the ids in the order of the call
cache_key(snap1, snap2) == <<snap1, snap2>>

\* variant: a store that extends the object it finds under the key
store_cached_changed_blocks_append(bucket, snap1, snap2, changed_blocks) ==
  [bucket EXCEPT ![cache_key(snap1, snap2)] =
     [kind |-> "object",
      Body |-> IF @.kind = "object"
               THEN [zlib |-> @.Body.zlib \o compress_json(changed_blocks).zlib]
               ELSE compress_json(changed_blocks)]]

\* the bucket after s3.put_object of the compressed blocks under the pair's key
store_cached_changed_blocks(bucket, snap1, snap2, changed_blocks) ==
  [bucket EXCEPT ![cache_key(snap1, snap2)] =
     [kind |-> "object", Body |-> compress_json(changed_blocks)]]

\* the record of an accepted put_object request
PutRequest(snap1, snap2, changed_blocks) ==
  [snap1 |-> snap1, snap2 |-> snap2, Body |-> compress_json(changed_blocks)]

\* variant: a hit that returns no changed block, whatever the object holds
get_cached_changed_blocks_empty(object, failure) ==
  IF object.kind = "object" /\ ~failure
  THEN [ChangedBlocks |-> <<>>]
  ELSE False

\* the value get_cached_changed_blocks returns for the S3 object under the key
get_cached_changed_blocks(object, failure) ==
  IF object.kind = "object" /\ ~failure
  THEN [ChangedBlocks |-> decompress_json(object.Body)]
  ELSE False

\* variant: the truth value of the cached list instead of the dict around it
IsCacheHit_nonempty_list(cached_result) ==
  cached_result # False /\ Len(cached_result.ChangedBlocks) > 0

\* `if cached_result:` in get_changed_blocks
IsCacheHit(cached_result) == PyTruthy(cached_result)

\* variant: the first page only, NextToken ignored
ChangedBlocksResponse_first_page(pages, block_size) ==
  [ChangedBlocks |-> StripTokens(pages[1]), BlockSize |-> block_size]

\* the response dict after pagination and token stripping
ChangedBlocksResponse(pages, block_size) ==
  [ChangedBlocks |-> StripTokens(FetchAllPages(pages)), BlockSize |-> block_size]

\* variant: a crafted response that lists one block
no_changed_blocks_response_one_block ==
  [ChangedBlocks |-> <<[BlockIndex |-> 0]>>, BlockSize |-> 123]

\* the crafted "no changed blocks" response of the empty-snapshot edge case
no_changed_blocks_response == [ChangedBlocks |-> <<>>, BlockSize |-> 123]

CurPair(w) == <<loc[w].snap1, loc[w].snap2>>

\* the S3 key of the pair of the running get_changed_blocks call
CurKey(w) == cache_key(loc[w].snap1, loc[w].snap2)

\* main() calls get_changed_blocks(snap1, snap2)
CallGetChangedBlocks(l, snap1, snap2) ==
  [l EXCEPT !.snap1 = snap1, !.snap2 = snap2, !.cache_read = "unset", !.response = None]

\* the exception leaves main() and lambda_handler
Raise(w, where) ==
  /\ pc' = [pc EXCEPT ![w] = "raised"]
  /\ raisedIn' = [raisedIn EXCEPT ![w] = where]
  /\ UNCHANGED <<loc, eval_data>>

\* main() returns eval_data with an error code; lambda_handler stores it next
ReturnError(w, code, msg) ==
  /\ pc' = [pc EXCEPT ![w] = "update_ddb"]
  /\ eval_data' = [eval_data EXCEPT ![w] = WithError(@, code, msg)]
  /\ UNCHANGED <<loc, raisedIn>>

\* main() after get_changed_blocks returned the dict changed_blocks
MainAfterDiff(w, changed_blocks) ==
  LET l == loc[w]
  IN /\ raisedIn' = raisedIn
     /\ IF l.snap2 = l.target
        THEN \* the predecessor -> target comparison
             IF l.scenario = "BOTH"
             THEN /\ loc' = [loc EXCEPT ![w] =
                       CallGetChangedBlocks([l EXCEPT !.changed_blocks_before = changed_blocks],
                                            l.target, l.snapshot_after.SnapshotId)]
                  /\ pc' = [pc EXCEPT ![w] = "cache_get"]
                  /\ eval_data' = eval_data
             ELSE /\ loc' = [loc EXCEPT ![w].changed_blocks_before = changed_blocks]
                  /\ pc' = [pc EXCEPT ![w] = "update_ddb"]
                  /\ eval_data' = [eval_data EXCEPT ![w] =
                       Step8(WithSizes(@, SizesBefore(l.snapshot_blocks, changed_blocks)),
                             l.pricing)]
        ELSE \* the target -> successor comparison
             /\ loc' = [loc EXCEPT ![w].changed_blocks_after = changed_blocks]
             /\ pc' = [pc EXCEPT ![w] = "update_ddb"]
             /\ eval_data' = [eval_data EXCEPT ![w] =
                  Step8(WithSizes(@, IF l.scenario = "BOTH"
                                     THEN SizesBoth(l.snapshot_blocks, l.changed_blocks_before,
                                                    changed_blocks)
                                     ELSE SizesAfter(l.snapshot_blocks, changed_blocks)),
                        l.pricing)]

(* ------------------------------ actions -------------------------------- *)
\* lambda_handler starts on an event: the first record is parsed and main() entered
Invoke(w, records) ==
  /\ w \in pool
  /\ Len(records) <= batch
  /\ \A i \in DOMAIN records : records[i] \in queue
  /\ pc[w] \in {"idle", "done", "raised"}
  /\ budget > 0
  /\ budget' = budget - 1
  /\ event' = [event EXCEPT ![w] = records]
  /\ pc' = [pc EXCEPT ![w] = "list_blocks"]
  /\ loc' = [loc EXCEPT ![w] =
       [InitLoc EXCEPT !.target = records[1].snapshot_id,
                       !.pricing = convert_pricing_data_to_decimal(records[1]).pricing_data]]
  /\ eval_data' = [eval_data EXCEPT ![w] = [target_snapshot |-> records[1].snapshot_id]]
  /\ raisedIn' = [raisedIn EXCEPT ![w] = "none"]
  /\ diffCalls' = [diffCalls EXCEPT ![w] = 0]
  /\ cacheOps' = [cacheOps EXCEPT ![w] = 0]
  /\ rateLimited' = [rateLimited EXCEPT ![w] = FALSE]
  /\ UNCHANGED <<world, source, reporting, cache, ddb, ghost>>

\* Step 1: get_snapshot_blocks and the full snapshot size
ListSnapshotBlocks(w) ==
  /\ pc[w] = "list_blocks"
  /\ UNCHANGED <<blockSize, chain, diffOf, cache, ddb, event, source, reporting, budget, diffCalls, cacheOps, ghost>>
  /\ \E reply \in {"ok", "ResourceNotFoundException", "RequestThrottledException", "ClientError"} :
       /\ rateLimited' = [rateLimited EXCEPT ![w] = (reply = "RequestThrottledException")]
       /\ CASE reply = "ok" ->
              \E d \in Observe(blocksOf[loc[w].target], BlockListings(blockSize)) :
                LET snapshot_blocks ==
                      [Blocks |-> FetchAllPages(Paginate(d.Blocks, PageSize)),
                       BlockSize |-> d.BlockSize, VolumeSize |-> VolumeSizeGb]
                    full == calculate_approx_full_snapshot_size(
                              Len(snapshot_blocks.Blocks), snapshot_blocks.BlockSize)
                IN /\ blocksOf' = [blocksOf EXCEPT ![loc[w].target] = d]
                   /\ loc' = [loc EXCEPT ![w].snapshot_blocks = snapshot_blocks,
                                         ![w].approx_full = full]
                   /\ eval_data' = [eval_data EXCEPT ![w] =
                        Put(Put(Put(@, "source_ebs_volume_size_gb", snapshot_blocks.VolumeSize),
                                "snapshot_block_size_bytes", snapshot_blocks.BlockSize),
                            "approx_full_snapshot_size_bytes", full)]
                   /\ pc' = [pc EXCEPT ![w] = "describe"]
                   /\ raisedIn' = raisedIn
         [] reply = "ResourceNotFoundException" ->
              /\ blocksOf' = blocksOf
              /\ ReturnError(w, "SNAPSHOT_BLOCKS_NOT_FOUND", "Unable to find snapshot blocks")
         [] reply \in {"RequestThrottledException", "ClientError"} ->
              \* except ClientError: logged and raised again, whatever the code
              /\ blocksOf' = blocksOf
              /\ Raise(w, "get_snapshot_blocks")

\* Step 2: get_source_volume_id
DescribeSnapshot(w) ==
  /\ pc[w] = "describe"
  /\ UNCHANGED <<world, cache, ddb, event, source, reporting, budget, diffCalls, cacheOps, ghost, rateLimited>>
  /\ \E reply \in {"ok", "ClientError"} :
       IF reply = "ok"
       THEN /\ eval_data' = [eval_data EXCEPT ![w] = Put(@, "snapshot_source_volume_id", VolumeId)]
            /\ pc' = [pc EXCEPT ![w] = "enumerate"]
            /\ UNCHANGED <<loc, raisedIn>>
       ELSE ReturnError(w, "SOURCE_VOLUME_NOT_FOUND", "Error identifying the source volume")

\* Steps 3 to 6a: get_volume_snapshots, sort, neighbours and scenario; the
\* NEITHER scenario needs no further call
DescribeVolumeSnapshots(w) ==
  /\ pc[w] = "enumerate"
  /\ UNCHANGED <<blockSize, blocksOf, diffOf, cache, ddb, event, source, reporting, budget, diffCalls, cacheOps, ghost>>
  /\ \E reply \in {"ok", "RequestLimitExceeded", "ClientError"} :
       /\ rateLimited' = [rateLimited EXCEPT ![w] = (reply = "RequestLimitExceeded")]
       /\ IF reply = "ok"
          THEN \E c \in Observe(chain, {[kind |-> "data", ids |-> ids] : ids \in SUBSET Snaps}) :
            \E listing \in ChainListings(c.ids) :
              LET l == loc[w]
                  all_volume_snapshots == FetchAllPages(Paginate(listing, PageSize))
                  sorted_snapshots == sort_snapshots_by_created_date(all_volume_snapshots)
                  surrounding == get_surrounding_snapshots(sorted_snapshots, l.target)
                  snapshot_before == surrounding[1]
                  snapshot_after == surrounding[2]
                  scenario == determine_eval_scenario(snapshot_before, snapshot_after)
                  l2 == [l EXCEPT !.snapshot_before = snapshot_before,
                                  !.snapshot_after = snapshot_after,
                                  !.scenario = scenario]
                  data == Put(Put(eval_data[w],
                            "snapshot_before",
                            IF Truthy(snapshot_before) THEN snapshot_before.SnapshotId ELSE "None"),
                            "snapshot_after",
                            IF Truthy(snapshot_after) THEN snapshot_after.SnapshotId ELSE "None")
              IN /\ chain' = c
                 /\ CASE scenario = "RAISE" ->
                           /\ pc' = [pc EXCEPT ![w] = "raised"]
                           /\ raisedIn' = [raisedIn EXCEPT ![w] = "determine_eval_scenario"]
                           /\ loc' = [loc EXCEPT ![w] = l2]
                           /\ eval_data' = [eval_data EXCEPT ![w] = data]
                      [] scenario = "NEITHER" ->
                           /\ pc' = [pc EXCEPT ![w] = "update_ddb"]
                           /\ raisedIn' = raisedIn
                           /\ loc' = [loc EXCEPT ![w] = l2]
                           /\ eval_data' = [eval_data EXCEPT ![w] =
                                Step8(WithSizes(data, SizesNeither(l.approx_full)), l.pricing)]
                      [] scenario \in {"BOTH", "BEFORE"} ->
                           /\ pc' = [pc EXCEPT ![w] = "cache_get"]
                           /\ raisedIn' = raisedIn
                           /\ loc' = [loc EXCEPT ![w] =
                                CallGetChangedBlocks(l2, snapshot_before.SnapshotId, l.target)]
                           /\ eval_data' = [eval_data EXCEPT ![w] = data]
                      [] scenario = "AFTER" ->
                           /\ pc' = [pc EXCEPT ![w] = "cache_get"]
                           /\ raisedIn' = raisedIn
                           /\ loc' = [loc EXCEPT ![w] =
                                CallGetChangedBlocks(l2, l.target, snapshot_after.SnapshotId)]
                           /\ eval_data' = [eval_data EXCEPT ![w] = data]
          ELSE \* no except clause: every error leaves get_volume_snapshots
            /\ chain' = chain
            /\ Raise(w, "get_volume_snapshots")

\* variant: a cache read that fails and leaves get_cached_changed_blocks as
\* an exception instead of the value False
GetCachedChangedBlocks_raising(w) ==
  /\ pc[w] = "cache_get"
  /\ UNCHANGED <<world, cache, ddb, event, source, reporting, budget, diffCalls, rateLimited>>
  /\ cacheOps' = [cacheOps EXCEPT ![w] = @ + 1]
  /\ UNCHANGED <<returnedDiff, listedDiff, puts, ghost>>
  /\ Raise(w, "get_cached_changed_blocks")

\* get_changed_blocks, first half: the S3 read of get_cached_changed_blocks
GetCachedChangedBlocks(w) ==
  /\ pc[w] = "cache_get"
  /\ UNCHANGED <<world, cache, ddb, event, source, reporting, budget, diffCalls, rateLimited>>
  /\ cacheOps' = [cacheOps EXCEPT ![w] = @ + 1]
  /\ \E failure \in BOOLEAN :
       LET cached_result == get_cached_changed_blocks(cache[CurKey(w)], failure)
           outcome == IF failure THEN "error"
                      ELSE IF cache[CurKey(w)].kind = "object" THEN "hit" ELSE "NoSuchKey"
       IN IF IsCacheHit(cached_result)
          THEN /\ returnedDiff' = returnedDiff \cup {CurPair(w)}
               /\ listedDiff' = listedDiff \cup {CurPair(w)}
               /\ puts' = puts
               /\ MainAfterDiff(w, cached_result)
          ELSE /\ pc' = [pc EXCEPT ![w] = "list_changed"]
               /\ loc' = [loc EXCEPT ![w].cache_read = outcome]
               /\ UNCHANGED <<eval_data, raisedIn, ghost>>

\* variant: the provider's answers that end the query without a listing,
\* each followed by a store of an empty list under the pair's key
ListChangedBlocks_store_without_listing(w) ==
  /\ pc[w] = "list_changed"
  /\ UNCHANGED <<blockSize, blocksOf, chain, ddb, event, source, reporting, budget, cacheOps,
                 diffOf, returnedDiff, listedDiff, rateLimited>>
  /\ diffCalls' = [diffCalls EXCEPT ![w] = @ + 1]
  /\ cache' = store_cached_changed_blocks(cache, loc[w].snap1, loc[w].snap2, <<>>)
  /\ puts' = puts \cup {PutRequest(loc[w].snap1, loc[w].snap2, <<>>)}
  /\ \E reply \in {"ValidationException", "ResourceNotFoundException"} :
       IF reply = "ValidationException"
       THEN Raise(w, "get_changed_blocks")
       ELSE ReturnError(w, "SNAPSHOT_NOT_FOUND",
                        "Unable to find snapshot during changed block analysis")

\* get_changed_blocks, the provider request after a cache miss
ListChangedBlocks(w) ==
  /\ pc[w] = "list_changed"
  /\ UNCHANGED <<blockSize, blocksOf, chain, cache, ddb, event, source, reporting, budget, cacheOps>>
  /\ diffCalls' = [diffCalls EXCEPT ![w] = @ + 1]
  /\ \E reply \in {"ok", "ValidationException", "ResourceNotFoundException",
                    "RequestThrottledException", "ClientError"} :
       /\ rateLimited' = [rateLimited EXCEPT ![w] = (reply = "RequestThrottledException")]
       /\ CASE reply = "ok" ->
              \E d \in Observe(diffOf[CurPair(w)],
                               {[kind |-> "data", ChangedBlocks |-> ls] : ls \in ChangedBlockListings}
                                 \cup {[kind |-> "empty"]}) :
                /\ diffOf' = [diffOf EXCEPT ![CurPair(w)] = d]
                /\ IF d.kind = "data"
                   THEN \* the listing is fetched and stripped; the store comes next
                        /\ loc' = [loc EXCEPT ![w].response =
                             ChangedBlocksResponse(Paginate(d.ChangedBlocks, PageSize), blockSize)]
                        /\ pc' = [pc EXCEPT ![w] = "cache_store"]
                        /\ UNCHANGED <<eval_data, raisedIn, ghost>>
                   ELSE \* ValidationException "... is empty": the crafted response is returned
                        /\ returnedDiff' = returnedDiff \cup {CurPair(w)}
                        /\ UNCHANGED <<listedDiff, puts>>
                        /\ MainAfterDiff(w, no_changed_blocks_response)
         [] reply = "ValidationException" ->
              \* any other validation error is raised again
              /\ UNCHANGED <<diffOf, ghost>>
              /\ Raise(w, "get_changed_blocks")
         [] reply = "ResourceNotFoundException" ->
              \* get_changed_blocks returns None
              /\ UNCHANGED <<diffOf, ghost>>
              /\ ReturnError(w, "SNAPSHOT_NOT_FOUND", "Unable to find snapshot during changed block analysis")
         [] reply \in {"RequestThrottledException", "ClientError"} ->
              \* no except clause for it: the error leaves get_changed_blocks
              /\ UNCHANGED <<diffOf, ghost>>
              /\ Raise(w, "get_changed_blocks")

\* get_changed_blocks, the S3 write of store_cached_changed_blocks and the return
StoreCachedChangedBlocks(w) ==
  /\ pc[w] = "cache_store"
  /\ UNCHANGED <<world, ddb, event, source, reporting, budget, diffCalls, rateLimited>>
  /\ cacheOps' = [cacheOps EXCEPT ![w] = @ + 1]
  /\ \E reply \in {"ok", "ClientError"} :
       IF reply = "ok"
       THEN /\ cache' = store_cached_changed_blocks(cache, loc[w].snap1, loc[w].snap2,
                                                    loc[w].response.ChangedBlocks)
            /\ puts' = puts \cup {PutRequest(loc[w].snap1, loc[w].snap2,
                                              loc[w].response.ChangedBlocks)}
            /\ returnedDiff' = returnedDiff \cup {CurPair(w)}
            /\ listedDiff' = listedDiff \cup {CurPair(w)}
            /\ MainAfterDiff(w, loc[w].response)
       ELSE \* put_object raises and nothing catches it
            /\ UNCHANGED <<cache, ghost>>
            /\ Raise(w, "store_cached_changed_blocks")

\* the two fields of a result that hold Decimal values
DecimalFields ==
  {"cost_estimate_90days_target_snapshot_in_std_tier",
   "cost_estimate_90days_target_snapshot_in_archive_tier"}

\* json.dumps(data, cls=DecimalEncoder): the JSON object of the dict, each
\* Decimal written as the string DecimalEncoder gives for it
JsonDumps(data) ==
  [k \in DOMAIN data |-> IF k \in DecimalFields THEN DecimalEncoder(data[k]) ELSE data[k]]

\* json.loads(s): the dict the JSON object denotes; strings stay strings
JsonLoads(s) == s

\* what lambda_handler does after the record at position i is stored: return True
AfterRecord(records, i) == "done"

\* update_ddb_table with the result of main(), then the end of the loop body
UpdateDdbTable(w) ==
  /\ pc[w] = "update_ddb"
  /\ UNCHANGED <<world, cache, event, loc, eval_data, source, reporting, budget, diffCalls, cacheOps, ghost,
                 rateLimited>>
  /\ \E reply \in {"ok", "ClientError"} :
       IF reply = "ok"
       THEN /\ ddb' = [ddb EXCEPT ![<<event[w][1].jobid, event[w][1].snapshot_id>>] =
                 [kind |-> "item", completed |-> "true", data |-> JsonDumps(eval_data[w])]]
            /\ pc' = [pc EXCEPT ![w] = AfterRecord(event[w], 1)]
            /\ raisedIn' = raisedIn
       ELSE /\ ddb' = ddb
            /\ pc' = [pc EXCEPT ![w] = "raised"]
            /\ raisedIn' = [raisedIn EXCEPT ![w] = "update_ddb_table"]

Next ==
  \/ \E w \in Workers, records \in Deliverable : Invoke(w, records)
  \/ \E w \in Workers : ListSnapshotBlocks(w)
  \/ \E w \in Workers : DescribeSnapshot(w)
  \/ \E w \in Workers : DescribeVolumeSnapshots(w)
  \/ \E w \in Workers : GetCachedChangedBlocks(w)
  \/ \E w \in Workers : ListChangedBlocks(w)
  \/ \E w \in Workers : StoreCachedChangedBlocks(w)
  \/ \E w \in Workers : UpdateDdbTable(w)

Spec == Init /\ [][Next]_vars

\* a volume whose NumSnaps snapshots are all listed
FullChain == [kind |-> "data", ids |-> Snaps]

\* the snapshot with a predecessor and a successor in the full chain
MiddleSnap == SnapIds[2]

\* the block listings of a snapshot that has all MaxBlock blocks
FullListings ==
  {b \in UNION {BlockListings(bs) : bs \in BlockSizes} : Len(b.Blocks) = MaxBlock}

\* MaxInvocations invocations, one after the other, each on the one queued
\* message, whose snapshot is in the middle of the full chain and lists all blocks
InitRepeat ==
  InitWith({[s \in Snaps |-> IF s = MiddleSnap THEN b ELSE Unknown] : b \in FullListings},
           {FullChain}, {m \in FirstRegionMessages : m.snapshot_id = MiddleSnap}, 1, MaxInvocations)

SpecRepeat == InitRepeat /\ [][Next]_vars

\* one invocation on an event of up to MaxBatch records of the full chain
InitBatch == InitWith({[s \in Snaps |-> Unknown]}, {FullChain}, FirstRegionMessages, MaxBatch, 1)

SpecBatch == InitBatch /\ [][Next]_vars

\* the snapshot created last: it has a predecessor and no successor
NewestSnap == SnapIds[1]

\* two concurrent invocations, one per worker, each on one record; the queue
\* holds the middle and the newest snapshot of the full chain, whose
\* evaluations both compare the middle with the newest; every snapshot lists
\* all blocks and no other comparison has a changed block
InitRace ==
  /\ blockSize \in BlockSizes
  /\ blocksOf \in {[s \in Snaps |-> b] : b \in FullListings}
  /\ chain = FullChain
  /\ diffOf = [p \in Pairs |-> IF p = <<MiddleSnap, NewestSnap>> THEN Unknown
                                ELSE [kind |-> "data", ChangedBlocks |-> <<>>]]
  /\ cache = [p \in Pairs |-> NoObject]
  /\ ddb = [k \in JobIds \X Snaps |-> NoItem]
  /\ pc = [w \in Workers |-> "idle"]
  /\ event = [w \in Workers |-> <<>>]
  /\ loc = [w \in Workers |-> InitLoc]
  /\ eval_data = [w \in Workers |-> [target_snapshot |-> "unset"]]
  /\ raisedIn = [w \in Workers |-> "none"]
  /\ queue = {m \in FirstRegionMessages : m.snapshot_id \in {MiddleSnap, NewestSnap}}
  /\ pool = Workers
  /\ batch = 1
  /\ budget = Cardinality(Workers)
  /\ diffCalls = [w \in Workers |-> 0]
  /\ cacheOps = [w \in Workers |-> 0]
  /\ returnedDiff = {}
  /\ listedDiff = {}
  /\ puts = {}
  /\ rateLimited = [w \in Workers |-> FALSE]
  /\ job = JobOver
  /\ InitReporting

SpecRace == InitRace /\ [][Next]_vars

(* --------------------- snapshot_job_init.lambda_handler ----------------- *)
\* list_snapshots(event): the ids of the completed standard-tier snapshots
JobListSnapshots ==
  /\ job.pc = "list_snapshots"
  /\ \E reply \in {"ok", "ClientError"} :
       IF reply = "ok"
       THEN job' = [job EXCEPT !.pc = "std_pricing",
                               !.snapshot_ids = [i \in 1..NumSnaps |-> SnapIds[i]]]
       ELSE job' = [job EXCEPT !.pc = "raised"]
  /\ UNCHANGED <<world, cache, ddb, pc, event, loc, eval_data, raisedIn, queue, pool, batch, reporting,
                 budget, diffCalls, cacheOps, ghost, rateLimited>>

\* get_pricing_data, first request: get_std_tier_snapshot_pricing
JobGetStdPricing ==
  /\ job.pc = "std_pricing"
  /\ \E reply \in {"ok", "not returned"} :
       IF reply = "ok"
       THEN \E price \in StdPrices :
              job' = [job EXCEPT !.pc = "archive_pricing", !.std = price, !.lookups = @ + 1]
       ELSE job' = [job EXCEPT !.pc = "raised", !.lookups = @ + 1]
  /\ UNCHANGED <<world, cache, ddb, pc, event, loc, eval_data, raisedIn, queue, pool, batch, reporting,
                 budget, diffCalls, cacheOps, ghost, rateLimited>>

\* get_pricing_data, second request: get_archive_tier_snapshot_pricing
JobGetArchivePricing ==
  /\ job.pc = "archive_pricing"
  /\ \E reply \in {"ok", "ClientError"} :
       IF reply = "ok"
       THEN \E price \in ArchivePrices :
              job' = [job EXCEPT !.pc = "put_job", !.pricing_data = PricingData(job.std, price)]
       ELSE job' = [job EXCEPT !.pc = "raised"]
  /\ UNCHANGED <<world, cache, ddb, pc, event, loc, eval_data, raisedIn, queue, pool, batch, reporting,
                 budget, diffCalls, cacheOps, ghost, rateLimited>>

\* put_item of the job into the job tracking table
JobPutTrackingItem ==
  /\ job.pc = "put_job"
  /\ \E reply \in {"ok", "ClientError"} :
       job' = [job EXCEPT !.pc = IF reply = "ok" THEN "put_items" ELSE "raised", !.i = 1]
  /\ UNCHANGED <<world, cache, ddb, pc, event, loc, eval_data, raisedIn, queue, pool, batch, reporting,
                 budget, diffCalls, cacheOps, ghost, rateLimited>>

\* variant: the first loop left after its first item, the messages sent next
JobPutEvalItem_first_only ==
  /\ job.pc = "put_items"
  /\ ddb' = [ddb EXCEPT ![<<job.jobid, job.snapshot_ids[job.i]>>] =
               [kind |-> "item", completed |-> "false"]]
  /\ job' = [job EXCEPT !.pc = "send", !.i = 1]
  /\ UNCHANGED <<world, cache, pc, event, loc, eval_data, raisedIn, queue, pool, batch, reporting,
                 budget, diffCalls, cacheOps, ghost, rateLimited>>

\* the first loop: put_item of one snapshot into the eval results table
JobPutEvalItem ==
  /\ job.pc = "put_items"
  /\ \E reply \in {"ok", "ClientError"} :
       IF reply = "ok"
       THEN /\ ddb' = [ddb EXCEPT ![<<job.jobid, job.snapshot_ids[job.i]>>] =
                 [kind |-> "item", completed |-> "false"]]
            /\ job' = IF job.i < Len(job.snapshot_ids)
                      THEN [job EXCEPT !.i = @ + 1]
                      ELSE [job EXCEPT !.pc = "send", !.i = 1]
       ELSE /\ ddb' = ddb
            /\ job' = [job EXCEPT !.pc = "raised"]
  /\ UNCHANGED <<world, cache, pc, event, loc, eval_data, raisedIn, queue, pool, batch, reporting,
                 budget, diffCalls, cacheOps, ghost, rateLimited>>

\* the message of the second loop for one snapshot, as json.dumps writes it
JobMessage(jobid, snapshot_id, pricing_data) ==
  [jobid |-> jobid, snapshot_id |-> snapshot_id, pricing_data |-> PricingJson(pricing_data)]

\* the second loop: send_message for one snapshot
JobSendMessage ==
  /\ job.pc = "send"
  /\ \E reply \in {"ok", "ClientError"} :
       IF reply = "ok"
       THEN /\ queue' = queue \cup {JobMessage(job.jobid, job.snapshot_ids[job.i],
                                               job.pricing_data)}
            /\ job' = IF job.i < Len(job.snapshot_ids)
                      THEN [job EXCEPT !.i = @ + 1]
                      ELSE [job EXCEPT !.pc = "returned"]
       ELSE /\ queue' = queue
            /\ job' = [job EXCEPT !.pc = "raised"]
  /\ UNCHANGED <<world, cache, ddb, pc, event, loc, eval_data, raisedIn, pool, batch, reporting,
                 budget, diffCalls, cacheOps, ghost, rateLimited>>

NextJob ==
  \/ JobListSnapshots
  \/ JobGetStdPricing
  \/ JobGetArchivePricing
  \/ JobPutTrackingItem
  \/ JobPutEvalItem
  \/ JobSendMessage
  \/ Next

\* job init starts on an empty queue and table; one worker evaluates one of
\* its messages; the chain is full and every snapshot lists all blocks
InitJob ==
  InitBase({[s \in Snaps |-> b] : b \in FullListings}, {FullChain}, {}, 1, 1, JobStart)

SpecJob == InitJob /\ [][NextJob]_vars

(* ---------------- the two cache functions, called directly -------------- *)
\* the ordered pairs of the two latest snapshot ids
CachePairs == {p \in Pairs : {p[1], p[2]} = {SnapIds[1], SnapIds[2]}}

\* the lists a caller may hand to the store: token-free records, any order
StrippedListings == {StripTokens(ls) : ls \in ChangedBlockListings}

\* store_cached_changed_blocks(snap1, snap2, changed_blocks), accepted by S3
CallStoreCachedChangedBlocks(w, snap1, snap2, changed_blocks) ==
  /\ w \in pool
  /\ pc[w] = "idle"
  /\ budget > 0
  /\ budget' = budget - 1
  /\ cache' = store_cached_changed_blocks(cache, snap1, snap2, changed_blocks)
  /\ puts' = puts \cup {PutRequest(snap1, snap2, changed_blocks)}
  /\ loc' = [loc EXCEPT ![w] = CallGetChangedBlocks(@, snap1, snap2)]
  /\ cacheOps' = [cacheOps EXCEPT ![w] = @ + 1]
  /\ UNCHANGED <<world, ddb, pc, event, eval_data, raisedIn, source, reporting, diffCalls,
                 returnedDiff, listedDiff, rateLimited>>

\* get_cached_changed_blocks(snap1, snap2): the value returned is kept in response
CallGetCachedChangedBlocks(w, snap1, snap2) ==
  /\ w \in pool
  /\ pc[w] = "idle"
  /\ budget > 0
  /\ budget' = budget - 1
  /\ cacheOps' = [cacheOps EXCEPT ![w] = @ + 1]
  /\ \E failure \in BOOLEAN :
       LET object == cache[cache_key(snap1, snap2)]
           outcome == IF failure THEN "error"
                      ELSE IF object.kind = "object" THEN "hit" ELSE "NoSuchKey"
       IN loc' = [loc EXCEPT ![w] =
                    [CallGetChangedBlocks(@, snap1, snap2) EXCEPT
                       !.cache_read = outcome,
                       !.response = get_cached_changed_blocks(object, failure)]]
  /\ UNCHANGED <<world, cache, ddb, pc, event, eval_data, raisedIn, source, reporting, diffCalls, ghost,
                 rateLimited>>

NextCache ==
  \/ \E w \in Workers, p \in CachePairs, changed_blocks \in StrippedListings :
       CallStoreCachedChangedBlocks(w, p[1], p[2], changed_blocks)
  \/ \E w \in Workers, p \in CachePairs : CallGetCachedChangedBlocks(w, p[1], p[2])

\* MaxInvocations direct calls of the cache functions on an empty bucket
InitCache == InitWith({[s \in Snaps |-> Unknown]}, {Unknown}, {}, 1, MaxInvocations)

SpecCache == InitCache /\ [][NextCache]_vars

(* ------------- the eval results table as the two reports query it -------- *)
\* the place of a snapshot id in the order of the sort key SnapshotId
SortKeyPos(s) == CHOOSE i \in 1..NumSnaps : SnapIds[i] = s

Min(a, b) == IF a <= b THEN a ELSE b

\* the item of the table under (JobId, SnapshotId), as a query returns it
TableItem(table, jobid, s) ==
  LET attributes == table[<<jobid, s>>]
  IN IF "data" \in DOMAIN attributes
     THEN [JobId |-> jobid, SnapshotId |-> s, completed |-> attributes.completed,
           data |-> attributes.data]
     ELSE [JobId |-> jobid, SnapshotId |-> s, completed |-> attributes.completed]

\* one table.query with KeyConditionExpression JobId = jobid: the items after
\* ExclusiveStartKey in sort key order, up to the size limit of one response
\* (PageSize items), and LastEvaluatedKey when items remain after them
Query(table, jobid, ExclusiveStartKey) ==
  LET start == IF ExclusiveStartKey = None THEN 0 ELSE SortKeyPos(ExclusiveStartKey.SnapshotId)
      Remaining(s) == table[<<jobid, s>>].kind = "item" /\ SortKeyPos(s) > start
      keys == SelectSeq([i \in 1..NumSnaps |-> SnapIds[i]], Remaining)
      n == Min(PageSize, Len(keys))
      Items == [i \in 1..n |-> TableItem(table, jobid, keys[i])]
  IN IF Len(keys) > n
     THEN [Items |-> Items, LastEvaluatedKey |-> [JobId |-> jobid, SnapshotId |-> keys[n]]]
     ELSE [Items |-> Items]

\* FilterExpression completed = 'false', applied to the items of one response
FilterNotCompleted(Items) ==
  LET NotCompleted(item) == item.completed = "false"
  IN SelectSeq(Items, NotCompleted)

(* ---------------- processing_status_checker.lambda_handler -------------- *)
\* the Step Function invokes the checker with the jobid
StatusInvoke ==
  /\ checker.pc \in {"idle", "returned"}
  /\ checker.runs < MaxInvocations
  /\ checker' = [CheckerStart EXCEPT !.pc = "query", !.runs = checker.runs + 1]
  /\ tableAtInvoke' = ddb
  /\ UNCHANGED <<world, cache, ddb, pc, event, loc, eval_data, raisedIn, source, budget,
                 diffCalls, cacheOps, ghost, rateLimited, consolidation, outputs>>

\* the dict the checker returns for the items data it has collected
StatusResult(jobid, data) ==
  IF Len(data) > 0
  THEN [jobid |-> jobid, num_jobs_pending |-> Len(data), completed |-> "false"]
  ELSE [jobid |-> jobid, completed |-> "true"]

\* variant: a checker that reads the first response only
StatusQuery_first_page ==
  /\ checker.pc = "query"
  /\ LET response == Query(ddb, checker.jobid, None)
         data == FilterNotCompleted(response.Items)
     IN checker' = [checker EXCEPT !.data = data, !.pc = "returned",
                                   !.result = StatusResult(checker.jobid, data)]
  /\ UNCHANGED <<world, cache, ddb, pc, event, loc, eval_data, raisedIn, source, budget,
                 diffCalls, cacheOps, ghost, rateLimited, consolidation, outputs,
                 tableAtInvoke>>

\* one table.query of the checker: the first one or one of the while loop;
\* after the response without LastEvaluatedKey the checker returns
StatusQuery ==
  /\ checker.pc = "query"
  /\ LET response == Query(ddb, checker.jobid, checker.LastEvaluatedKey)
         data == checker.data \o FilterNotCompleted(response.Items)
     IN IF "LastEvaluatedKey" \in DOMAIN response
        THEN checker' = [checker EXCEPT !.data = data,
                                        !.LastEvaluatedKey = response.LastEvaluatedKey]
        ELSE checker' = [checker EXCEPT !.data = data, !.LastEvaluatedKey = None,
                                        !.pc = "returned",
                                        !.result = StatusResult(checker.jobid, data)]
  /\ UNCHANGED <<world, cache, ddb, pc, event, loc, eval_data, raisedIn, source, budget,
                 diffCalls, cacheOps, ghost, rateLimited, consolidation, outputs,
                 tableAtInvoke>>

(* --------------------- consolidate_to_s3.lambda_handler ----------------- *)
\* the fieldnames of the results csv.DictWriter
data_headers ==
  {"target_snapshot", "source_ebs_volume_size_gb", "snapshot_block_size_bytes",
   "approx_full_snapshot_size_bytes", "snapshot_source_volume_id", "snapshot_before",
   "snapshot_after", "approx_size_target_snapshot_bytes",
   "cost_estimate_90days_target_snapshot_in_std_tier",
   "cost_estimate_90days_target_snapshot_in_archive_tier"}

\* csv.DictWriter.writerow with extrasaction='raise', the default: a key that
\* is no fieldname raises ValueError, a missing fieldname is written as ''
DictWriterAccepts(fieldnames, rowdict) == DOMAIN rowdict \subseteq fieldnames

DictWriterRow(fieldnames, rowdict) ==
  [f \in fieldnames |-> IF f \in DOMAIN rowdict THEN rowdict[f] ELSE ""]

\* a row of the errors CSV
ErrorRow(item, ErrorMessage) ==
  [JobId |-> item.JobId, SnapshotId |-> item.SnapshotId, ErrorMessage |-> ErrorMessage]

\* the loop over response['Items']: the two streams after the items, or the
\* ValueError of writer.writerow, which nothing catches. update_ddb_table
\* stores a JSON object, so json.loads and the test for error_message succeed
RECURSIVE WriteRows(_, _)
WriteRows(Items, streams) ==
  IF Items = <<>> \/ streams.raised
  THEN streams
  ELSE LET item == Head(Items)
           eval_result == JsonLoads(item.data)
       IN WriteRows(Tail(Items),
            IF "data" \notin DOMAIN item
            THEN [streams EXCEPT !.error_stream =
                    Append(@, ErrorRow(item, <<"No data was captured for this snapshot.">>))]
            ELSE IF "error_message" \in DOMAIN eval_result
            THEN [streams EXCEPT !.error_stream =
                    Append(@, ErrorRow(item, <<eval_result.error_code, ": ",
                                               eval_result.error_message>>))]
            ELSE IF DictWriterAccepts(data_headers, eval_result)
            THEN [streams EXCEPT !.stream = Append(@, DictWriterRow(data_headers, eval_result))]
            ELSE [streams EXCEPT !.raised = TRUE])

\* the one table.query of consolidation (LastEvaluatedKey is not read) and the
\* loop that fills the two streams
ConsolidateQuery ==
  /\ consolidation.pc = "idle"
  /\ LET response == Query(ddb, consolidation.jobid, None)
         streams == WriteRows(response.Items,
                              [stream |-> <<>>, error_stream |-> <<>>, raised |-> FALSE])
     IN consolidation' = [consolidation EXCEPT
                            !.pc = IF streams.raised THEN "raised" ELSE "put_results",
                            !.raisedIn = IF streams.raised THEN "writer.writerow" ELSE "none",
                            !.stream = streams.stream,
                            !.error_stream = streams.error_stream]
  /\ UNCHANGED <<world, cache, ddb, pc, event, loc, eval_data, raisedIn, source, budget,
                 diffCalls, cacheOps, ghost, rateLimited, checker, outputs, tableAtInvoke>>

\* s3.Object(s3_bucket, s3_object_name).put of the results CSV
ConsolidatePutResults ==
  /\ consolidation.pc = "put_results"
  /\ \E reply \in {"ok", "ClientError"} :
       IF reply = "ok"
       THEN /\ outputs' = [outputs EXCEPT !.results =
                            [kind |-> "object", Body |-> consolidation.stream]]
            /\ consolidation' = [consolidation EXCEPT !.pc = "put_errors"]
       ELSE /\ outputs' = outputs
            /\ consolidation' = [consolidation EXCEPT !.pc = "raised", !.raisedIn = "put"]
  /\ UNCHANGED <<world, cache, ddb, pc, event, loc, eval_data, raisedIn, source, budget,
                 diffCalls, cacheOps, ghost, rateLimited, checker, tableAtInvoke>>

\* s3.Object(s3_bucket, s3_error_object_name).put of the errors CSV, then the return
ConsolidatePutErrors ==
  /\ consolidation.pc = "put_errors"
  /\ \E reply \in {"ok", "ClientError"} :
       IF reply = "ok"
       THEN /\ outputs' = [outputs EXCEPT !.errors =
                            [kind |-> "object", Body |-> consolidation.error_stream]]
            /\ consolidation' = [consolidation EXCEPT !.pc = "returned"]
       ELSE /\ outputs' = outputs
            /\ consolidation' = [consolidation EXCEPT !.pc = "raised", !.raisedIn = "put"]
  /\ UNCHANGED <<world, cache, ddb, pc, event, loc, eval_data, raisedIn, source, budget,
                 diffCalls, cacheOps, ghost, rateLimited, checker, tableAtInvoke>>

(* ------------- a job after job init: workers and the two reports -------- *)
\* the snapshots of the job: the two latest of the volume
JobSnaps == {NewestSnap, MiddleSnap}

\* job init has returned: every snapshot of the job has its item with completed
\* "false" and its message in the queue; one worker is invoked once per
\* snapshot of the job, on any queued message; the chain is full, every
\* snapshot lists all blocks and no comparison has a changed block
InitReport ==
  /\ blockSize \in BlockSizes
  /\ blocksOf \in {[s \in Snaps |-> b] : b \in FullListings}
  /\ chain = FullChain
  /\ diffOf = [p \in Pairs |-> [kind |-> "data", ChangedBlocks |-> <<>>]]
  /\ cache = [p \in Pairs |-> NoObject]
  /\ ddb = [k \in JobIds \X Snaps |->
              IF k[2] \in JobSnaps THEN [kind |-> "item", completed |-> "false"] ELSE NoItem]
  /\ pc = [w \in Workers |-> "idle"]
  /\ event = [w \in Workers |-> <<>>]
  /\ loc = [w \in Workers |-> InitLoc]
  /\ eval_data = [w \in Workers |-> [target_snapshot |-> "unset"]]
  /\ raisedIn = [w \in Workers |-> "none"]
  /\ queue = {m \in FirstRegionMessages : m.snapshot_id \in JobSnaps}
  /\ pool = {"w1"}
  /\ batch = 1
  /\ budget = Cardinality(JobSnaps)
  /\ diffCalls = [w \in Workers |-> 0]
  /\ cacheOps = [w \in Workers |-> 0]
  /\ returnedDiff = {}
  /\ listedDiff = {}
  /\ puts = {}
  /\ rateLimited = [w \in Workers |-> FALSE]
  /\ job = JobOver
  /\ InitReporting

NextReport ==
  \/ Next
  \/ StatusInvoke
  \/ StatusQuery
  \/ ConsolidateQuery
  \/ ConsolidatePutResults
  \/ ConsolidatePutErrors

SpecReport == InitReport /\ [][NextReport]_vars

\* the worker is inside an invocation: it has a call to make
Running(w) ==
  pc[w] \in {"list_blocks", "describe", "enumerate", "cache_get", "list_changed",
             "cache_store", "update_ddb"}

\* an invocation that has started makes its next call: the checker and
\* consolidation by weak fairness of their calls; for the evaluator, whose call
\* at each of its positions is enabled whatever the state, weak fairness of
\* its calls is that the worker is again and again outside an invocation
Fairness ==
  /\ WF_vars(StatusQuery)
  /\ WF_vars(ConsolidatePutResults \/ ConsolidatePutErrors)
  /\ \A w \in Workers : []<>(~Running(w))

\* the job after job init, every started invocation running to its end
SpecLive == InitReport /\ [][NextReport]_vars /\ Fairness

(* ------------------------------ properties ----------------------------- *)
\* main() has returned eval_data to lambda_handler
Returned(w) ==
  \/ pc[w] \in {"update_ddb", "done"}
  \/ pc[w] = "raised" /\ raisedIn[w] = "update_ddb_table"

\* main() has returned a result without an error code
Succeeded(w) == Returned(w) /\ "error_code" \notin DOMAIN eval_data[w]

InScenario(w, scenario) == Succeeded(w) /\ loc[w].scenario = scenario

\* the provider has told some call what the pair's comparison is
Observed(snap1, snap2) == diffOf[<<snap1, snap2>>].kind # "unknown"

\* ChangedBlockSet(first -> second): the block indices the provider holds for the
\* ordered pair; empty when the first snapshot is empty
ChangedBlockSet(snap1, snap2) ==
  LET d == diffOf[<<snap1, snap2>>]
  IN IF d.kind = "data" THEN {d.ChangedBlocks[i].BlockIndex : i \in DOMAIN d.ChangedBlocks}
     ELSE {}

Before(w) == loc[w].snapshot_before.SnapshotId
After(w) == loc[w].snapshot_after.SnapshotId
Target(w) == loc[w].target
Online(w) == eval_data[w].approx_size_target_snapshot_bytes
Removed(w) == eval_data[w].approx_size_target_snapshot_removed_bytes
\* the number of blocks the provider lists for the target
ListedBlocks(w) == Len(blocksOf[Target(w)].Blocks)

\* C1: in scenario BOTH the bytes freed if archived are the number of block
\* indices that occur in both ChangedBlockSet(predecessor -> target) and
\* ChangedBlockSet(target -> successor), times the block size, whatever the
\* order in which the provider returned the indices.
C1_BothRemovedIsIntersection ==
  \A w \in Workers :
    InScenario(w, "BOTH") =>
      /\ Observed(Before(w), Target(w)) /\ Observed(Target(w), After(w))
      /\ Removed(w) =
           Cardinality(ChangedBlockSet(Before(w), Target(w))
                         \cap ChangedBlockSet(Target(w), After(w))) * blockSize

\* a BOTH evaluation where one index is in both comparisons, one only in the
\* first, returned out of index order
C1_Witness ==
  \E w \in Workers :
    /\ InScenario(w, "BOTH")
    /\ BlockIndexes(loc[w].changed_blocks_before) = <<2, 1>>
    /\ ChangedBlockSet(Target(w), After(w)) = {2}
    /\ Removed(w) = blockSize

\* C2: in scenario BOTH the size if online is the number of block indices in
\* ChangedBlockSet(predecessor -> target) times the block size, whether the
\* records came in provider pages or from the cache entry.
C2_BothOnlineIsChangedBefore ==
  \A w \in Workers :
    InScenario(w, "BOTH") =>
      /\ Observed(Before(w), Target(w))
      /\ Online(w) = Cardinality(ChangedBlockSet(Before(w), Target(w))) * blockSize

\* a BOTH evaluation served from the cache alone, two changed blocks before
C2_Witness ==
  \E w \in Workers :
    /\ InScenario(w, "BOTH")
    /\ diffCalls[w] = 0
    /\ Cardinality(ChangedBlockSet(Before(w), Target(w))) = 2
    /\ Online(w) = 2 * blockSize

\* the truth table of the scenario classifier
ScenarioTable(predecessor_present, successor_present) ==
  CASE ~predecessor_present /\ ~successor_present -> "NEITHER"
    [] predecessor_present /\ successor_present -> "BOTH"
    [] predecessor_present /\ ~successor_present -> "BEFORE"
    [] ~predecessor_present /\ successor_present -> "AFTER"

\* C3: the classifier returns, for every neighbour pair an evaluation finds,
\* exactly the scenario of the truth table, and the evaluation never ends in
\* the classifier's exception.
C3_ClassifierTotal ==
  \A w \in Workers :
    /\ raisedIn[w] # "determine_eval_scenario"
    /\ loc[w].scenario # "unset" =>
         loc[w].scenario = ScenarioTable(Truthy(loc[w].snapshot_before),
                                         Truthy(loc[w].snapshot_after))

\* an evaluation classified BEFORE: predecessor present, successor absent
C3_Witness ==
  \E w \in Workers :
    /\ loc[w].scenario = "BEFORE"
    /\ Truthy(loc[w].snapshot_before) /\ ~Truthy(loc[w].snapshot_after)

\* C4: in scenario AFTER the size if online is the listed block count times
\* the block size and the bytes freed are |ChangedBlockSet(target ->
\* successor)| times the block size (0 when that set is empty).
C4_AfterSizes ==
  \A w \in Workers :
    InScenario(w, "AFTER") =>
      /\ Observed(Target(w), After(w))
      /\ Online(w) = ListedBlocks(w) * blockSize
      /\ Removed(w) = Cardinality(ChangedBlockSet(Target(w), After(w))) * blockSize

\* an AFTER evaluation of a snapshot with blocks whose successor changed none
C4_Witness ==
  \E w \in Workers :
    /\ InScenario(w, "AFTER")
    /\ diffOf[<<Target(w), After(w)>>].kind = "data"
    /\ ChangedBlockSet(Target(w), After(w)) = {}
    /\ ListedBlocks(w) = MaxBlock
    /\ Removed(w) = 0 /\ Online(w) = MaxBlock * blockSize

\* C5: in scenario BEFORE the size if online and the bytes freed are equal,
\* both |ChangedBlockSet(predecessor -> target)| times the block size; the
\* target's listed block count plays no part.
C5_BeforeSizes ==
  \A w \in Workers :
    InScenario(w, "BEFORE") =>
      /\ Observed(Before(w), Target(w))
      /\ Online(w) = Removed(w)
      /\ Online(w) = Cardinality(ChangedBlockSet(Before(w), Target(w))) * blockSize

\* a BEFORE evaluation whose target lists no block while two blocks changed
C5_Witness ==
  \E w \in Workers :
    /\ InScenario(w, "BEFORE")
    /\ ListedBlocks(w) = 0
    /\ Cardinality(ChangedBlockSet(Before(w), Target(w))) = 2
    /\ Online(w) = 2 * blockSize

\* C6: in scenario NEITHER the size if online equals the bytes freed, both are
\* the listed block count times the block size, and the evaluation made no
\* changed-block request and no cache request.
C6_NeitherSizes ==
  \A w \in Workers :
    InScenario(w, "NEITHER") =>
      /\ Online(w) = Removed(w)
      /\ Online(w) = ListedBlocks(w) * blockSize
      /\ diffCalls[w] = 0
      /\ cacheOps[w] = 0

\* a NEITHER evaluation of the only snapshot of its volume, with blocks listed
C6_Witness ==
  \E w \in Workers :
    /\ InScenario(w, "NEITHER")
    /\ chain.ids = {Target(w)}
    /\ ListedBlocks(w) = MaxBlock
    /\ Removed(w) = MaxBlock * blockSize

\* worker w takes the step of get_cached_changed_blocks
CacheReadStep(w) == pc[w] = "cache_get" /\ cacheOps'[w] # cacheOps[w]

C8_StoreFailureNotFatal ==
  \A w \in Workers : ~(pc[w] = "raised" /\ raisedIn[w] = "store_cached_changed_blocks")

\* the table holds a completed result for the snapshot of the record
Stored(record) ==
  LET item == ddb[<<record.jobid, record.snapshot_id>>]
  IN item.kind = "item" /\ item.completed = "true"
       /\ item.data.target_snapshot = record.snapshot_id

\* C9 as stated: when the worker has returned from an event of N records, a
\* result is stored for the snapshot of every one of the N records.
C9_BatchYieldsAllResults ==
  \A w \in Workers :
    pc[w] = "done" => \A i \in DOMAIN event[w] : Stored(event[w][i])

\* C10 as stated: no failed lookup (block listing, volume id, chain
\* enumeration, changed blocks) ends the evaluation with an exception; each
\* ends it with a returned result that carries an error code.
C10_LookupFailureReturnsErrorCode ==
  \A w \in Workers :
    ~(pc[w] = "raised" /\ raisedIn[w] \in {"get_snapshot_blocks", "get_source_volume_id",
                                           "get_volume_snapshots", "get_changed_blocks"})

\* what a read of the pair's key that does not fail returns in this state
Lookup(snap1, snap2) == get_cached_changed_blocks(cache[cache_key(snap1, snap2)], FALSE)

\* C11: the entries of (A,B) and (B,A) are independent: whatever was stored
\* and in whatever order, a lookup of an ordered pair hits only with a list
\* that a store call for exactly that ordered pair put there; a store for
\* (B,A) neither creates nor changes what a lookup of (A,B) returns.
C11_CacheDirectional ==
  /\ \A p \in Pairs :
       Lookup(p[1], p[2]) # False =>
         PutRequest(p[1], p[2], Lookup(p[1], p[2]).ChangedBlocks) \in puts
  /\ \A w \in Workers :
       loc[w].cache_read = "hit" =>
         PutRequest(loc[w].snap1, loc[w].snap2, loc[w].response.ChangedBlocks) \in puts

\* a lookup of (A,B) that found no key while (B,A) holds a stored list
C11_Witness ==
  \E w \in Workers :
    /\ loc[w].cache_read = "NoSuchKey"
    /\ loc[w].response = False
    /\ Lookup(loc[w].snap2, loc[w].snap1) # False
    /\ \E put \in puts : put.snap1 = loc[w].snap2 /\ put.snap2 = loc[w].snap1

EntryIndexes(cached_result) == SeqToSet(BlockIndexes(cached_result))

\* worker w takes the step of get_cached_changed_blocks and the read is a hit
CacheHitStep(w) == CacheReadStep(w) /\ pc'[w] # "list_changed"

\* C13: the cache is write-once per key: an entry that exists for an ordered
\* pair exists in every later state with the same set of block indices
\* (a second store after a failed read or a lost race writes the same set),
\* and the step of a cache hit sends no put_object and leaves the bucket as it is.
C13_CacheWriteOnce ==
  [][/\ \A p \in Pairs :
          Lookup(p[1], p[2]) # False =>
            /\ Lookup(p[1], p[2])' # False
            /\ EntryIndexes(Lookup(p[1], p[2])') = EntryIndexes(Lookup(p[1], p[2]))
     /\ \A w \in Workers : CacheHitStep(w) => (cache' = cache /\ puts' = puts)]_vars

\* after a first evaluation stored both comparisons, a later one whose two
\* cache reads failed asked the provider twice and stored both entries again
C13_Witness ==
  \E w \in Workers :
    /\ budget < MaxInvocations - 1
    /\ pc[w] = "update_ddb"
    /\ InScenario(w, "BOTH")
    /\ Stored(event[w][1])
    /\ "error_code" \notin DOMAIN ddb[<<event[w][1].jobid, Target(w)>>].data
    /\ diffOf[<<Before(w), Target(w)>>].kind = "data"
    /\ diffOf[<<Target(w), After(w)>>].kind = "data"
    /\ diffCalls[w] = 2 /\ cacheOps[w] = 4
    /\ Cardinality(puts) = 2
    /\ Lookup(Before(w), Target(w)) # False /\ Lookup(Target(w), After(w)) # False

\* the dict get_changed_blocks returns for the pair when it runs alone on an
\* empty cache: the provider's listing without tokens, or the crafted empty one
ProviderDiff(snap1, snap2) ==
  LET d == diffOf[<<snap1, snap2>>]
  IN IF d.kind = "data" THEN [ChangedBlocks |-> StripTokens(d.ChangedBlocks)]
     ELSE [ChangedBlocks |-> <<>>]

\* the two size figures of w's evaluation when it runs alone on an empty cache
SequentialSizes(w) ==
  CASE loc[w].scenario = "BOTH" ->
         SizesBoth(loc[w].snapshot_blocks, ProviderDiff(Before(w), Target(w)),
                   ProviderDiff(Target(w), After(w)))
    [] loc[w].scenario = "BEFORE" ->
         SizesBefore(loc[w].snapshot_blocks, ProviderDiff(Before(w), Target(w)))
    [] loc[w].scenario = "AFTER" ->
         SizesAfter(loc[w].snapshot_blocks, ProviderDiff(Target(w), After(w)))
    [] loc[w].scenario = "NEITHER" -> SizesNeither(loc[w].approx_full)

\* C14: under every interleaving of the workers' cache reads, provider
\* requests and cache writes, all writes for one ordered pair carry the same
\* payload, the entry of a pair is the provider's listing for it, and every
\* successful evaluation has the sizes of a run alone on an empty cache; two
\* evaluations of one target agree. No step of a worker waits for another.
C14_RaceWritesIdentical ==
  /\ \A a \in puts, b \in puts :
       (a.snap1 = b.snap1 /\ a.snap2 = b.snap2) => a.Body = b.Body
  /\ \A p \in Pairs :
       Lookup(p[1], p[2]) # False =>
         /\ diffOf[p].kind = "data"
         /\ Lookup(p[1], p[2]) = ProviderDiff(p[1], p[2])
  /\ \A w \in Workers :
       Succeeded(w) =>
         /\ Online(w) = SequentialSizes(w).approx_size_target_snapshot_bytes
         /\ Removed(w) = SequentialSizes(w).approx_size_target_snapshot_removed_bytes
  /\ \A w1 \in Workers, w2 \in Workers :
       (Succeeded(w1) /\ Succeeded(w2) /\ Target(w1) = Target(w2)) =>
         (Online(w1) = Online(w2) /\ Removed(w1) = Removed(w2))

\* two workers, on the middle and on the newest snapshot, both found no key
\* for the pair (middle, newest), both asked the provider, both stored the
\* MaxBlock changed blocks and both finished with a result
C14_Witness ==
  \E w1 \in Workers, w2 \in Workers :
    /\ Target(w1) = MiddleSnap /\ Target(w2) = NewestSnap
    /\ pc[w1] = "done" /\ pc[w2] = "done"
    /\ Succeeded(w1) /\ Succeeded(w2)
    /\ CurPair(w1) = <<MiddleSnap, NewestSnap>> /\ CurPair(w2) = CurPair(w1)
    /\ loc[w1].cache_read = "NoSuchKey" /\ loc[w2].cache_read = "NoSuchKey"
    /\ diffOf[CurPair(w1)].kind = "data"
    /\ Len(diffOf[CurPair(w1)].ChangedBlocks) = MaxBlock
    /\ diffCalls[w1] >= 1 /\ diffCalls[w2] = 1
    /\ Lookup(MiddleSnap, NewestSnap) = ProviderDiff(MiddleSnap, NewestSnap)

\* the snapshots of the volume created before / after the target of w
EarlierThanTarget(w) == {s \in chain.ids : StartTime(s) < StartTime(Target(w))}
LaterThanTarget(w) == {s \in chain.ids : StartTime(s) > StartTime(Target(w))}

\* C15: whatever the order in which the provider lists the volume's snapshots
\* (creation times distinct, target among them), the predecessor found is the
\* snapshot created latest before the target and the successor the one created
\* earliest after it; each is None exactly when there is no such snapshot.
C15_NeighboursByCreationTime ==
  \A w \in Workers :
    (loc[w].scenario # "unset" /\ Target(w) \in chain.ids) =>
      /\ Truthy(loc[w].snapshot_before) <=> EarlierThanTarget(w) # {}
      /\ Truthy(loc[w].snapshot_before) =>
           /\ Before(w) \in EarlierThanTarget(w)
           /\ \A s \in EarlierThanTarget(w) : StartTime(s) <= StartTime(Before(w))
           /\ loc[w].snapshot_before = SnapshotRecord(Before(w))
      /\ Truthy(loc[w].snapshot_after) <=> LaterThanTarget(w) # {}
      /\ Truthy(loc[w].snapshot_after) =>
           /\ After(w) \in LaterThanTarget(w)
           /\ \A s \in LaterThanTarget(w) : StartTime(s) >= StartTime(After(w))
           /\ loc[w].snapshot_after = SnapshotRecord(After(w))

\* the newest snapshot of a volume with an older one that is not its
\* predecessor: the predecessor is the later of the two older snapshots
\* and there is no successor
C15_Witness ==
  \E w \in Workers :
    /\ loc[w].scenario = "BEFORE"
    /\ Target(w) = NewestSnap
    /\ Cardinality(EarlierThanTarget(w)) >= 2
    /\ Before(w) = MiddleSnap
    /\ ~Truthy(loc[w].snapshot_after)

\* C16: when the chain enumerated for the target's volume does not hold the
\* target, main() does not fail: both neighbours are None, the scenario is
\* NEITHER, no comparison is asked for, and both size figures are the listed
\* block count times the block size.
C16_UnlistedTargetIsNeither ==
  \A w \in Workers :
    (loc[w].scenario # "unset" /\ Target(w) \notin chain.ids) =>
      /\ ~Truthy(loc[w].snapshot_before) /\ ~Truthy(loc[w].snapshot_after)
      /\ loc[w].scenario = "NEITHER"
      /\ Succeeded(w)
      /\ diffCalls[w] = 0
      /\ Online(w) = ListedBlocks(w) * blockSize
      /\ Removed(w) = ListedBlocks(w) * blockSize
      /\ Online(w) = loc[w].approx_full

\* a finished evaluation of a target with blocks whose volume lists only
\* other snapshots
C16_Witness ==
  \E w \in Workers :
    /\ pc[w] = "done"
    /\ loc[w].scenario = "NEITHER"
    /\ Target(w) \notin chain.ids
    /\ Cardinality(chain.ids) = NumSnaps - 1
    /\ ListedBlocks(w) = MaxBlock
    /\ Online(w) = MaxBlock * blockSize /\ Removed(w) = Online(w)

\* get_changed_blocks answered w's comparison with the crafted empty response
EmptySignalBefore(w) == loc[w].changed_blocks_before = no_changed_blocks_response
EmptySignalAfter(w) == loc[w].changed_blocks_after = no_changed_blocks_response

\* C17: when list_changed_blocks reports the first snapshot of the pair as
\* empty, get_changed_blocks returns an empty ChangedBlocks list and main()
\* goes on: to the second comparison when the first of two was empty, to a
\* result without error code when the comparison was the last of the
\* evaluation; the comparison counts 0 blocks, and every size
\* is a block count times the block size of the target's own listing (never
\* the BlockSize of the crafted response).
C17_EmptyFirstSnapshotIsEmptyDiff ==
  \A w \in Workers :
    /\ EmptySignalBefore(w) =>
         /\ diffOf[<<Before(w), Target(w)>>].kind = "empty"
         /\ loc[w].changed_blocks_before.ChangedBlocks = <<>>
         /\ loc[w].scenario = "BEFORE" => Succeeded(w)
         /\ loc[w].scenario = "BOTH" => CurPair(w) = <<Target(w), After(w)>>
         /\ Succeeded(w) => (Online(w) = 0 /\ Removed(w) = 0)
    /\ EmptySignalAfter(w) =>
         /\ diffOf[<<Target(w), After(w)>>].kind = "empty"
         /\ Succeeded(w)
         /\ Removed(w) = 0
         /\ loc[w].scenario = "AFTER" => Online(w) = ListedBlocks(w) * blockSize
         /\ loc[w].scenario = "BOTH" =>
              Online(w) = Cardinality(ChangedBlockSet(Before(w), Target(w))) * blockSize
    /\ (Succeeded(w) /\ (EmptySignalBefore(w) \/ EmptySignalAfter(w))) =>
         eval_data[w].snapshot_block_size_bytes = loc[w].snapshot_blocks.BlockSize

\* the oldest snapshot of a volume, itself with MaxBlock blocks, whose
\* comparison with its successor was answered by the empty signal
C17_Witness ==
  \E w \in Workers :
    /\ pc[w] = "done"
    /\ InScenario(w, "AFTER")
    /\ EmptySignalAfter(w)
    /\ ListedBlocks(w) = MaxBlock
    /\ Online(w) = MaxBlock * blockSize
    /\ Removed(w) = 0

\* the step in which the provider answers a request of w with its rate limit
RateLimitedStep(w) == ~rateLimited[w] /\ rateLimited'[w]

\* the evaluation of w ended with the error result of a not-found reply
EndedNotFound(w) ==
  /\ "error_code" \in DOMAIN eval_data[w]
  /\ eval_data[w].error_code \in {"SNAPSHOT_BLOCKS_NOT_FOUND", "SNAPSHOT_NOT_FOUND"}

\* C18 as stated: a rate-limited reply to the block listing, the chain
\* enumeration or the pairwise diff is followed by a retry of that request
\* (the worker is at the same call again, no exception has left the
\* evaluation), while a not-found reply ends the evaluation at once with a
\* returned error result.
C18_RateLimitedIsRetried ==
  [][\A w \in Workers :
       /\ RateLimitedStep(w) => (pc'[w] = pc[w] /\ raisedIn'[w] = "none")
       /\ (~EndedNotFound(w) /\ EndedNotFound(w)') =>
            (pc'[w] = "update_ddb" /\ diffCalls'[w] <= diffCalls[w] + 1)]_vars

\* the prices in the message w evaluates, as numbers
MessagePrices(w) ==
  PricingData(DecimalOfStr(event[w][1].pricing_data.std_tier_snapshot_pricing),
              DecimalOfStr(event[w][1].pricing_data.archive_tier_snapshot_pricing))

CostStd(w) == eval_data[w].cost_estimate_90days_target_snapshot_in_std_tier
CostArchive(w) == eval_data[w].cost_estimate_90days_target_snapshot_in_archive_tier
FullSize(w) == eval_data[w].approx_full_snapshot_size_bytes

\* cost * 2^30 = bytes * price * 3, that is cost = bytes / 2^30 * price * 3
IsCostOverHorizon(cost, bytes, price) ==
  DecimalMul(cost, Decimal(BYTES_PER_GB, 1))
    = DecimalMul(DecimalMul(Decimal(bytes, 1), price), Decimal(3, 1))

\* C20: in every successful result the standard-tier 90-day estimate is
\* bytesToGB(size if online) * standard price * 3 and the archive-tier
\* estimate is bytesToGB(full size) * archive price * 3, with 1 GB = 2^30
\* bytes and the prices of the message; 1 GB at 0.05 per GB-month gives 0.15
\* (and so 10 GB give 1.50).
C20_CostOverHorizon ==
  /\ \A w \in Workers :
       Succeeded(w) =>
         /\ IsCostOverHorizon(CostStd(w), Online(w),
                              MessagePrices(w).std_tier_snapshot_pricing)
         /\ IsCostOverHorizon(CostArchive(w), FullSize(w),
                              MessagePrices(w).archive_tier_snapshot_pricing)
         /\ FullSize(w) = ListedBlocks(w) * blockSize
  /\ Step8([approx_size_target_snapshot_bytes |-> BYTES_PER_GB,
            approx_full_snapshot_size_bytes |-> 0],
           PricingData(Decimal(5, 100), Decimal(125, 10000)))
         .cost_estimate_90days_target_snapshot_in_std_tier = Decimal(15, 100)

\* a middle snapshot with MaxBlock blocks of which one changed since its
\* predecessor, priced at 0.054 and 0.0135: the standard-tier estimate is
\* over one block, the archive-tier estimate over all blocks
C20_Witness ==
  \E w \in Workers :
    /\ InScenario(w, "BOTH")
    /\ MessagePrices(w) = PricingData(Decimal(54, 1000), Decimal(135, 10000))
    /\ Online(w) = blockSize
    /\ FullSize(w) = MaxBlock * blockSize
    /\ CostStd(w) = DecimalMul(Decimal(blockSize * 3, BYTES_PER_GB), Decimal(54, 1000))
    /\ CostArchive(w) = DecimalMul(Decimal(MaxBlock * blockSize * 3, BYTES_PER_GB),
                                   Decimal(135, 10000))
    /\ CostStd(w) # CostArchive(w)

\* C19: the job looks the prices up once, before its first message; every
\* message in the queue carries those two prices; an evaluation takes its
\* prices from its message alone, so its estimates are computed with the
\* prices of the job's one lookup, and no step of a worker is a lookup.
C19_OnePricingPerJob ==
  /\ job.lookups <= 1
  /\ \A m \in queue :
       /\ job.lookups = 1
       /\ m.pricing_data = PricingJson(job.pricing_data)
  /\ \A m1 \in queue, m2 \in queue :
       m1.jobid = m2.jobid => m1.pricing_data = m2.pricing_data
  /\ \A w \in Workers :
       pc[w] # "idle" =>
         /\ loc[w].pricing = MessagePrices(w)
         /\ loc[w].pricing = job.pricing_data
  /\ \A w \in Workers :
       Succeeded(w) =>
         /\ IsCostOverHorizon(CostStd(w), Online(w), job.pricing_data.std_tier_snapshot_pricing)
         /\ IsCostOverHorizon(CostArchive(w), FullSize(w),
                              job.pricing_data.archive_tier_snapshot_pricing)

\* job init returned after one lookup that gave 0.054 and 0.0125, all
\* NumSnaps messages carry these prices and an evaluation of the middle
\* snapshot computed its two estimates with them
C19_Witness ==
  \E w \in Workers :
    /\ job.pc = "returned"
    /\ job.lookups = 1
    /\ job.pricing_data = PricingData(Decimal(54, 1000), Decimal(125, 10000))
    /\ Cardinality(queue) = NumSnaps
    /\ \A m \in queue : m.pricing_data = PricingJson(job.pricing_data)
    /\ pc[w] = "done"
    /\ InScenario(w, "BOTH")
    /\ Online(w) = MaxBlock * blockSize
    /\ CostStd(w) = DecimalMul(Decimal(MaxBlock * blockSize * 3, BYTES_PER_GB), Decimal(54, 1000))
    /\ CostArchive(w) = DecimalMul(Decimal(MaxBlock * blockSize * 3, BYTES_PER_GB),
                                   Decimal(125, 10000))

\* the two size estimates and the two 90-day cost estimates of a result
EstimateFields ==
  {"approx_size_target_snapshot_bytes", "approx_size_target_snapshot_removed_bytes",
   "cost_estimate_90days_target_snapshot_in_std_tier",
   "cost_estimate_90days_target_snapshot_in_archive_tier"}

\* the error code and the message of an error record
ErrorFields == {"error_code", "error_message"}

\* the error codes main() returns
ErrorCodes == {"SNAPSHOT_BLOCKS_NOT_FOUND", "SOURCE_VOLUME_NOT_FOUND", "SNAPSHOT_NOT_FOUND"}

PendingIn(table, jobid) ==
  {s \in Snaps : table[<<jobid, s>>].kind = "item" /\ table[<<jobid, s>>].completed = "false"}

\* the status checker returns in this step
StatusReturnStep == checker.pc = "query" /\ checker'.pc = "returned"

\* C22: when the status checker returns, completed is "true" with no count or
\* "false" with num_jobs_pending; "true" is returned only when no item of the
\* job has completed = "false". If no item changed between the invocation and
\* the return, "true" is returned exactly when no item is "false" and
\* otherwise num_jobs_pending is the number of items marked "false", over all
\* pages; if workers completed items meanwhile, the count lies between the
\* number still "false" at the return and the number "false" at the invocation.
C22_StatusCountsPending ==
  [][StatusReturnStep =>
       LET result == checker'.result
           now == PendingIn(ddb', checker.jobid)
           atInvoke == PendingIn(tableAtInvoke, checker.jobid)
       IN /\ result.jobid = checker.jobid
          /\ result.completed \in {"true", "false"}
          /\ (result.completed = "true") <=> ("num_jobs_pending" \notin DOMAIN result)
          /\ result.completed = "true" => now = {}
          /\ result.completed = "false" =>
               /\ result.num_jobs_pending >= 1
               /\ result.num_jobs_pending >= Cardinality(now)
               /\ result.num_jobs_pending <= Cardinality(atInvoke)
          /\ ddb = tableAtInvoke =>
               /\ (result.completed = "true") <=> (now = {})
               /\ result.completed = "false" => result.num_jobs_pending = Cardinality(now)
  ]_vars

\* the checker returned "false" with one pending item, found behind a
\* completed item in key order, on a table no worker wrote to meanwhile
C22_Witness ==
  /\ checker.pc = "returned"
  /\ checker.result.completed = "false"
  /\ checker.result.num_jobs_pending = 1
  /\ ddb = tableAtInvoke
  /\ PendingIn(ddb, checker.jobid) = {MiddleSnap}
  /\ ddb[<<checker.jobid, NewestSnap>>].completed = "true"

\* the item of the job for snapshot s holds the result of an evaluation without error
HasSuccessResult(table, jobid, s) ==
  /\ table[<<jobid, s>>].kind = "item"
  /\ "data" \in DOMAIN table[<<jobid, s>>]
  /\ "error_message" \notin DOMAIN JsonLoads(table[<<jobid, s>>].data)

\* the item of the job for snapshot s holds an error record
HasErrorResult(table, jobid, s) ==
  /\ table[<<jobid, s>>].kind = "item"
  /\ "data" \in DOMAIN table[<<jobid, s>>]
  /\ "error_message" \in DOMAIN JsonLoads(table[<<jobid, s>>].data)

\* the rows of the results stream and of the errors stream for snapshot s
ResultRows(stream, s) == {i \in DOMAIN stream : stream[i].target_snapshot = s}
ErrorRows(error_stream, s) == {i \in DOMAIN error_stream : error_stream[i].SnapshotId = s}

\* consolidation runs its query and its loop in this step
ConsolidateStep == consolidation.pc = "idle" /\ consolidation'.pc # "idle"

\* the snapshots whose items the one query response of consolidation holds
QueriedSnaps(table, jobid) ==
  LET Items == Query(table, jobid, None).Items
  IN {Items[i].SnapshotId : i \in DOMAIN Items}

\* every item of the job gets its one row: in the results stream for a
\* successful result, in the errors stream for an item without data or with
\* an error record
ConsolidationWritesEveryItem ==
  [][ConsolidateStep /\ consolidation'.pc = "put_results" =>
       \A s \in JobSnaps :
         LET results == Cardinality(ResultRows(consolidation'.stream, s))
             errors == Cardinality(ErrorRows(consolidation'.error_stream, s))
         IN IF HasSuccessResult(ddb, consolidation.jobid, s)
            THEN results = 1 /\ errors = 0
            ELSE results = 0 /\ errors = 1
  ]_vars

\* C23: consolidation never aborts on a successful evaluation result as the
\* evaluator stored it: when the response of its query holds such an item, the
\* loop ends without an exception and the item is one row of the results
\* stream and no row of the errors stream.
C23_SuccessBecomesResultsRow ==
  [][ConsolidateStep =>
       \A s \in QueriedSnaps(ddb, consolidation.jobid) :
         HasSuccessResult(ddb, consolidation.jobid, s) =>
           /\ consolidation'.pc = "put_results"
           /\ Cardinality(ResultRows(consolidation'.stream, s)) = 1
           /\ Cardinality(ErrorRows(consolidation'.error_stream, s)) = 0
  ]_vars

\* the message of snapshot s has been delivered: a worker has started on it
Delivered(s) == \E w \in Workers : pc[w] = "list_blocks" /\ Target(w) = s

\* the item of the job for snapshot s has completed = "true"
Completed(jobid, s) ==
  ddb[<<jobid, s>>].kind = "item" /\ ddb[<<jobid, s>>].completed = "true"

\* C24: every item of the job whose message is delivered to a worker
\* eventually has completed = "true", whatever the provider and the cache
\* reply to the worker.
C24_DeliveredItemCompletes ==
  \A s \in JobSnaps : Delivered(s) ~> Completed("j1", s)

\* job init writes an item in this step
InitWriteStep(k) == job.pc = "put_items" /\ ddb'[k] # ddb[k]

\* C25: job init has written the completed = "false" item of every snapshot
\* of the job before a message is in the queue; a step of job init writes
\* only an item that does not exist yet; and an item with completed = "true"
\* keeps completed = "true" and stored evaluation data in every step, under
\* all interleavings of job init and the workers.
C25_CompletedOnlyRises ==
  [][/\ queue' # {} =>
          \A i \in DOMAIN job.snapshot_ids :
            ddb'[<<job.jobid, job.snapshot_ids[i]>>].kind = "item"
     /\ \A k \in JobIds \X Snaps :
          /\ InitWriteStep(k) => ddb[k] = NoItem /\ ddb'[k].completed = "false"
          /\ (ddb[k].kind = "item" /\ ddb[k].completed = "true") =>
               /\ ddb'[k].kind = "item"
               /\ ddb'[k].completed = "true"
               /\ "data" \in DOMAIN ddb'[k]
          /\ (ddb[k].kind = "item" /\ ddb'[k] # ddb[k]) =>
               /\ ddb[k].completed = "false" \/ \E w \in Workers : pc[w] = "update_ddb"
               /\ ddb'[k].completed = "true"
  ]_vars

\* job init is still sending messages while a worker has already stored the
\* result of a snapshot whose message it took from the queue
C25_Witness ==
  /\ job.pc = "send"
  /\ \E w \in Workers :
       /\ pc[w] = "done"
       /\ ddb[<<job.jobid, Target(w)>>].kind = "item"
       /\ ddb[<<job.jobid, Target(w)>>].completed = "true"
       /\ "data" \in DOMAIN ddb[<<job.jobid, Target(w)>>]

\* C26, for the oldest snapshot of a volume (scenario AFTER) that lists at
\* least one block: in every successful result the bytes freed by archiving
\* are at most the size kept online, and the size kept online is at most the
\* full size of the snapshot, the number of blocks listed for it times the
\* block size.
C26_FreedAtMostOnlineAtMostFull ==
  \A w \in Workers :
    (InScenario(w, "AFTER") /\ ListedBlocks(w) >= 1) =>
      /\ Removed(w) <= Online(w)
      /\ Online(w) <= FullSize(w)
      /\ FullSize(w) = ListedBlocks(w) * blockSize

\* the fields main() has written before the size estimates
MeasuredFields(w) == [k \in DOMAIN eval_data[w] \ EstimateFields |-> eval_data[w][k]]

\* the result of w's evaluation when every diff comes from the provider: the
\* sizes of a run on an empty cache and their costs at the prices of the message
CacheFreeResult(w) ==
  Step8(WithSizes(MeasuredFields(w), SequentialSizes(w)), loc[w].pricing)

\* the item of w's target holds the successful result of an earlier evaluation
StoredSuccess(w) == HasSuccessResult(ddb, event[w][1].jobid, Target(w))

\* C27: a successful result is the result of a run in which every diff comes
\* from the provider, whichever of the needed pairs the run found in the
\* cache; so it equals the successful result an earlier run of the same
\* target has stored.
C27_ResultIndependentOfCache ==
  \A w \in Workers :
    Succeeded(w) =>
      /\ eval_data[w] = CacheFreeResult(w)
      /\ StoredSuccess(w) =>
           JsonDumps(eval_data[w]) = ddb[<<event[w][1].jobid, Target(w)>>].data

\* the second run of a target returned a result from two cache hits and no
\* provider request, while the item still holds the result of the first run,
\* which ran on an empty cache and stored MaxBlock changed blocks for a pair
C27_Witness ==
  \E w \in Workers :
    /\ pc[w] = "update_ddb" /\ Succeeded(w)
    /\ loc[w].scenario = "BOTH"
    /\ budget = MaxInvocations - 2
    /\ diffCalls[w] = 0 /\ cacheOps[w] = 2
    /\ StoredSuccess(w)
    /\ Cardinality(puts) = 2
    /\ Len(Lookup(Before(w), Target(w)).ChangedBlocks) = MaxBlock

\* the provider request of w's diff query is answered in this step
ProviderAnswerStep(w) == pc[w] = "list_changed" /\ pc'[w] # pc[w]

\* the answer is a listing the provider delivered: the store comes next
FetchedListing(w) == pc'[w] = "cache_store"

\* C28: a provider answer that is no fetched listing (not found, the
\* empty-first-snapshot signal, any other error) leaves every cache entry as
\* it is and sends no put request; the cache changes only in the store step of
\* a query whose listing the provider delivered, and only under that pair's key.
C28_NoListingNoCacheWrite ==
  [][/\ \A w \in Workers :
          (ProviderAnswerStep(w) /\ ~FetchedListing(w)) => (cache' = cache /\ puts' = puts)
     /\ cache' # cache =>
          \E w \in Workers :
            /\ pc[w] = "cache_store"
            /\ diffOf[CurPair(w)].kind = "data"
            /\ loc[w].response.ChangedBlocks = ProviderDiff(loc[w].snap1, loc[w].snap2).ChangedBlocks
            /\ \A p \in Pairs : p # CurKey(w) => cache'[p] = cache[p]
  ]_vars

\* the pair has an entry from an earlier run; this run's read of it failed,
\* the provider answered not-found, and the entry is still the stored listing
C28_Witness ==
  \E w \in Workers :
    /\ Returned(w)
    /\ "error_code" \in DOMAIN eval_data[w]
    /\ eval_data[w].error_code = "SNAPSHOT_NOT_FOUND"
    /\ loc[w].cache_read = "error"
    /\ diffCalls[w] = 1
    /\ Lookup(loc[w].snap1, loc[w].snap2) = ProviderDiff(loc[w].snap1, loc[w].snap2)
    /\ Len(Lookup(loc[w].snap1, loc[w].snap2).ChangedBlocks) = MaxBlock

\* the kinds of failed cache read: no object under the key, and an S3 error or
\* an object that does not decompress or parse
FailedReads == {"NoSuchKey", "error"}

\* C29: no step of get_cached_changed_blocks leaves the evaluation with an
\* exception or an error result; a read that finds no object under the key,
\* that S3 answers with an error, or whose object does not decompress or
\* parse returns False, and the diff query goes on to the provider's
\* list_changed_blocks with the result record as it was.
C29_CacheReadFailureIsMiss ==
  [][\A w \in Workers :
       CacheReadStep(w) =>
         /\ pc'[w] # "raised"
         /\ raisedIn'[w] = raisedIn[w]
         /\ "error_code" \notin DOMAIN eval_data'[w]
         /\ cache[CurKey(w)].kind # "object" => loc'[w].cache_read \in FailedReads
         /\ loc'[w].cache_read \in FailedReads =>
              /\ pc'[w] = "list_changed"
              /\ eval_data'[w] = eval_data[w]
              /\ CurPair(w)' = CurPair(w)]_vars

\* the pair has an entry from an earlier run; this run's read of it failed,
\* the provider listed the blocks again and the evaluation stored a result
\* with its estimates
C29_Witness ==
  \E w \in Workers :
    /\ pc[w] = "done"
    /\ "error_code" \notin DOMAIN eval_data[w]
    /\ loc[w].cache_read = "error"
    /\ diffCalls[w] >= 1
    /\ Lookup(loc[w].snap1, loc[w].snap2) # False
    /\ HasSuccessResult(ddb, event[w][1].jobid, Target(w))

\* every item of the job that holds an error record has completed = "true"
ErrorResultIsCompleted(table, jobid) ==
  \A s \in Snaps :
    HasErrorResult(table, jobid, s) =>
      table[<<jobid, s>>].kind = "item" /\ table[<<jobid, s>>].completed = "true"

\* the status checker's count leaves out the items that held an error record
\* when it was invoked
StatusSkipsErrorResults ==
  StatusReturnStep =>
    LET result == checker'.result
        others == {s \in Snaps : /\ tableAtInvoke[<<checker.jobid, s>>].kind = "item"
                                 /\ ~HasErrorResult(tableAtInvoke, checker.jobid, s)}
    IN /\ result.completed = "false" => result.num_jobs_pending <= Cardinality(others)
       /\ (ddb = tableAtInvoke /\ \A s \in others : Completed(checker.jobid, s))
            => result.completed = "true"

\* the snapshots of the job whose items hold an error record
ErrorResults(table, jobid) == {s \in Snaps : HasErrorResult(table, jobid, s)}

\* when the job has an item with an error record, consolidation ends its loop
\* without an exception, so that the outputs are written, with one errors row
\* and no results row for each such item in its query response
ErrorResultBecomesErrorsRow ==
  (ConsolidateStep /\ ErrorResults(ddb, consolidation.jobid) # {}) =>
    /\ consolidation'.pc = "put_results"
    /\ \A s \in ErrorResults(ddb, consolidation.jobid) \cap QueriedSnaps(ddb, consolidation.jobid) :
         /\ Cardinality(ErrorRows(consolidation'.error_stream, s)) = 1
         /\ Cardinality(ResultRows(consolidation'.stream, s)) = 0

\* every item of the job with an error record, in the query response or
\* behind it, gets its one errors row
ErrorResultsAllWritten ==
  [][ConsolidateStep =>
       \A s \in ErrorResults(ddb, consolidation.jobid) :
         /\ consolidation'.pc = "put_results"
         /\ Cardinality(ErrorRows(consolidation'.error_stream, s)) = 1
         /\ Cardinality(ResultRows(consolidation'.stream, s)) = 0]_vars

\* C30: an evaluation that ends in an error result completes its item: the
\* stored error record comes with completed = "true", the status checker
\* does not count the snapshot as pending, and consolidation writes exactly
\* one row for it to the errors output and none to the results output.
C30_ErrorResultCompletesItem ==
  [][/\ ErrorResultIsCompleted(ddb', "j1")
     /\ StatusSkipsErrorResults
     /\ ErrorResultBecomesErrorsRow]_vars

\* the part of C30 before consolidation
ErrorResultLeavesPending ==
  [][ErrorResultIsCompleted(ddb', "j1") /\ StatusSkipsErrorResults]_vars

====
